---- MODULE Spec2Model ----
(***************************************************************************)
(* Resume_optimizer: the Flask backend (app.py), the LangGraph             *)
(* optimisation pipeline (utils/cv_optimizer_agent.py), the RAG system     *)
(* (utils/rag_system.py), the skills comparison tools (utils/tools.py,     *)
(* utils/skills_matcher.py), the error categoriser                         *)
(* (utils/letter_generator.py) and the assistant agent                     *)
(* (utils/assistant_agent.py).                                             *)
(*                                                                         *)
(* Python None is the string "None" for string-valued fields and the empty *)
(* tuple <<>> for object-valued fields (<<x>> is the object x).            *)
(***************************************************************************)
EXTENDS Integers, Sequences, FiniteSets, TLC

\* ------------------------------------------------------------------------
\* Bounds and input domains
\* ------------------------------------------------------------------------

\* request slots (one HTTP request in flight per slot)
Reqs == {"r1", "r2"}

\* session identifiers a client may send
Sessions == {"s1", "s2"}

\* CV texts and job descriptions a client may send ("" is a missing field)
CvTexts == {"cvA", "cvB"}
JdTexts == {"jdX", "jdY"}

\* longest conversation history the model lets a session accumulate
MaxMsgs == 8

\* number of chunks the text splitter cuts a text into
NumChunks == 2

NoneStr == "None"

\* ------------------------------------------------------------------------
\* Exception messages: str(e) of the exceptions the external services and
\* the libraries raise, each with the substrings parse_openai_error looks
\* for.  The lower-cased text is searched for every marker except "401",
\* "429", "500" and "Incorrect API key", which are searched in the text
\* as it is.
\* ------------------------------------------------------------------------
Msgs ==
  { "connection reset",
    "Error code: 401 invalid_api_key",
    "429 rate_limit after 500 upstream",
    "500 internal_error",
    "insufficient_quota: check billing",
    "model not found",
    "invalid model, billing 401" }

\* the messages of the exceptions raised inside the optimisation graph
NodeMsgs == {"connection reset", "429 rate_limit after 500 upstream"}

Contains(msg, pat) ==
  CASE msg = "connection reset" -> FALSE
    [] msg = "Error code: 401 invalid_api_key" ->
         pat \in {"401", "invalid_api_key"}
    [] msg = "429 rate_limit after 500 upstream" ->
         pat \in {"429", "rate_limit", "500"}
    [] msg = "500 internal_error" -> pat \in {"500", "internal_error"}
    [] msg = "insufficient_quota: check billing" ->
         pat \in {"insufficient_quota", "billing"}
    [] msg = "model not found" -> pat \in {"model", "not found"}
    [] msg = "invalid model, billing 401" ->
         pat \in {"invalid", "model", "billing", "401"}
    [] OTHER -> FALSE

\* letter_generator.parse_openai_error: the error_code of the first rule
\* that matches; "None" when no rule matches.  user_message is a fixed text
\* per error_code, so the code names the category text.
parse_openai_error(msg) ==
  IF Contains(msg, "401") \/ Contains(msg, "invalid_api_key")
     \/ Contains(msg, "Incorrect API key")
  THEN "401"
  ELSE IF Contains(msg, "429") \/ Contains(msg, "rate_limit")
  THEN "429"
  ELSE IF Contains(msg, "500") \/ Contains(msg, "internal_error")
  THEN "500"
  ELSE IF Contains(msg, "insufficient_quota") \/ Contains(msg, "billing")
  THEN "billing"
  ELSE IF Contains(msg, "model")
          /\ (Contains(msg, "not found") \/ Contains(msg, "invalid"))
  THEN "model"
  ELSE NoneStr

\* the user-facing text of a category
user_message(code) == <<"user_message", code>>

\* a raw exception text sent to the client
raw_message(msg) == <<"raw", msg>>


\* ------------------------------------------------------------------------
\* State
\* ------------------------------------------------------------------------
VARIABLES
  rag_systems,       \* app.rag_systems: session -> absent, or present with None or <<id>>
  rag_heap,          \* the RAGSystem objects: id -> its two vector stores
  assistant_memory,  \* app.assistant_memory: session -> absent, or present with <<id>>
  mem_heap,          \* the ConversationBufferMemory objects: id -> messages
  pc,                \* position of the request in each slot
  req,               \* the JSON body of the request in each slot
  st,                \* CVOptimizationState of the pipeline run in each slot
  resp,              \* the HTTP answer of each slot
  calls,             \* history: the external calls each request has made
  asst,              \* locals of the assistant request in each slot
  cmp_in,            \* arguments of a call of the heuristic comparison
  cmp_out,           \* what that call returned
  rag_in,            \* arguments of a call of compare_skills_tool_with_rag
  rag_out            \* what that call returned

web == <<rag_systems, rag_heap, assistant_memory, mem_heap,
         pc, req, st, resp, calls, asst>>

\* the calls of the comparison functions checked on their own
pure == <<cmp_in, cmp_out, rag_in, rag_out>>

vars == <<web, pure>>

\* identifiers of the objects a request creates for a session
ObjIds == Sessions \X Reqs

\* a dictionary slot: the key is missing, or it holds a value (None is <<>>)
Absent == [present |-> FALSE, obj |-> <<>>]
Holds(obj) == [present |-> TRUE, obj |-> obj]

\* a fixed message of the route layer
text_message(text) == <<"text", text>>

\* RecursiveCharacterTextSplitter.split_text followed by the Document list
\* built from it: chunk i of the text, tagged with its collection's
\* session_id argument and its type
documents(text, session_id, type) ==
  { [page_content |-> <<text, i>>, session_id |-> session_id, type |-> type]
      : i \in 1..NumChunks }

\* Chroma.from_documents(documents, collection_name)
from_documents(docs, collection_name) ==
  [docs |-> docs, collection_name |-> collection_name]

\* RAGSystem.__init__: both vector stores start as None
NewRAGSystem == [cv_vectorstore |-> <<>>, jd_vectorstore |-> <<>>]

\* the nodes of the graph in the order of its edges
execution_order ==
  << "analyze_structure", "extract_cv_skills", "index_cv_rag",
     "extract_job_skills", "index_jd_rag", "compare_skills", "generate_cv" >>

IndexOf(node) == CHOOSE i \in 1..Len(execution_order) : execution_order[i] = node

\* the edge leaving a node: add_edge(node, next), the last one to END
NextNode(node) ==
  IF IndexOf(node) = Len(execution_order) THEN "opt_return"
  ELSE execution_order[IndexOf(node) + 1]

IdleReq ==
  [kind |-> "none", session_id |-> "s1", api_key |-> "", cv_text |-> "",
   job_description |-> "", request |-> "", optimized_cv |-> ""]

\* initial_state of optimize_cv_with_agent
initial_state(cv_text, job_description, rag_system) ==
  [cv_text |-> cv_text, job_description |-> job_description,
   rag_system |-> rag_system,
   cv_structure |-> NoneStr, cv_skills |-> "empty", job_skills |-> "empty",
   skills_comparison |-> <<>>, optimized_cv |-> NoneStr, sources |-> <<>>,
   error |-> NoneStr, agent_logs |-> 0,
   trace |-> <<>>]

IdleState == initial_state("", "", <<>>)

NoResp ==
  [status |-> 0, error |-> <<>>, optimized_cv |-> NoneStr, agent_logs |-> 0,
   result_error |-> NoneStr, action |-> NoneStr, updated_cv |-> NoneStr,
   result |-> <<>>]

\* history of the external calls of one request: whether some call has
\* failed, and whether a call was made after a failed one
NoCalls == [failed |-> FALSE, after_failure |-> FALSE]

\* locals of api_assistant and process_assistant_request_with_agent: the
\* memory object handed over, and how often agent_executor.invoke and
\* chain.invoke have been called; current_cv is current_cv[0] of the closure
\* of create_assistant_tools, steps the calls of the two CV tools so far,
\* each with the cv_text it was given and the result it returned
NoAsst ==
  [memory |-> <<>>, agent_executor |-> 0, chain |-> 0,
   current_cv |-> NoneStr, steps |-> <<>>]

\* str(e) of the ValueError that float() raises on a malformed temperature
ValueErrorMsg == "could not convert string to float"

InitWeb ==
  /\ rag_systems = [s \in Sessions |-> Absent]
  /\ rag_heap = [o \in ObjIds |-> NewRAGSystem]
  /\ assistant_memory = [s \in Sessions |-> Absent]
  /\ mem_heap = [o \in ObjIds |-> <<>>]
  /\ pc = [r \in Reqs |-> "idle"]
  /\ req = [r \in Reqs |-> IdleReq]
  /\ st = [r \in Reqs |-> IdleState]
  /\ resp = [r \in Reqs |-> NoResp]
  /\ calls = [r \in Reqs |-> NoCalls]
  /\ asst = [r \in Reqs |-> NoAsst]

\* one external call (LLM or embedding service) and whether it succeeded
Called(c, ok) ==
  [failed |-> c.failed \/ ~ok, after_failure |-> c.after_failure \/ c.failed]

Call(r, ok) == calls' = [calls EXCEPT ![r] = Called(@, ok)]

\* state["agent_logs"].append(line): the list is modelled by its length
Log(state, line) == [state EXCEPT !.agent_logs = @ + 1]

Ran(state, node) == [state EXCEPT !.trace = Append(@, node)]

Answer(r, a) == resp' = [resp EXCEPT ![r] = a]

\* ------------------------------------------------------------------------
\* /api/optimize-cv
\* ------------------------------------------------------------------------

\* api_optimize_cv up to the membership test of the RAG setup: reads the
\* body, validates it, and either finds the session's RAG system or goes on
\* to create one
api_optimize_cv(r, s) ==
  /\ pc[r] = "idle"
  /\ \E k \in {"", "sk"}, numbers_ok \in BOOLEAN,
        cv \in CvTexts \cup {""}, jd \in JdTexts \cup {""} :
       /\ req' = [req EXCEPT ![r] =
                    [IdleReq EXCEPT !.kind = "optimize", !.session_id = s,
                       !.api_key = k, !.cv_text = cv, !.job_description = jd]]
       /\ calls' = [calls EXCEPT ![r] = NoCalls]
       /\ IF k = ""
          THEN /\ Answer(r, [NoResp EXCEPT !.status = 400,
                               !.error = text_message("API key is required")])
               /\ pc' = [pc EXCEPT ![r] = "done"]
               /\ UNCHANGED st
          ELSE IF cv = "" \/ jd = ""
          THEN /\ Answer(r, [NoResp EXCEPT !.status = 400,
                 !.error = text_message("CV text and job description are required")])
               /\ pc' = [pc EXCEPT ![r] = "done"]
               /\ UNCHANGED st
          ELSE IF ~numbers_ok
          THEN \* float() or int() of a malformed field raises into the
               \* except branch of the endpoint
               /\ Answer(r, [NoResp EXCEPT !.status = 500,
                    !.error = user_message(parse_openai_error(ValueErrorMsg))])
               /\ pc' = [pc EXCEPT ![r] = "done"]
               /\ UNCHANGED st
          ELSE /\ resp' = [resp EXCEPT ![r] = NoResp]
               /\ IF ~rag_systems[s].present
                  THEN /\ pc' = [pc EXCEPT ![r] = "opt_rag_init"]
                       /\ UNCHANGED st
                  ELSE \* rag_system = rag_systems[session_id], then
                       \* optimize_cv_with_agent builds initial_state
                       /\ st' = [st EXCEPT ![r] =
                                   initial_state(cv, jd, rag_systems[s].obj)]
                       /\ pc' = [pc EXCEPT ![r] = "analyze_structure"]
  /\ UNCHANGED <<rag_systems, rag_heap, assistant_memory, mem_heap, asst>>

\* the body of "if session_id not in rag_systems": RAGSystem(api_key) either
\* is stored under the session or raises, which answers 500
opt_rag_init(r) ==
  /\ pc[r] = "opt_rag_init"
  /\ LET s == req[r].session_id IN
     \E init_ok \in BOOLEAN, m \in NodeMsgs :
       IF init_ok
       THEN /\ rag_systems' = [rag_systems EXCEPT ![s] = Holds(<< <<s, r>> >>)]
            /\ rag_heap' = [rag_heap EXCEPT ![<<s, r>>] = NewRAGSystem]
            /\ st' = [st EXCEPT ![r] =
                 initial_state(req[r].cv_text, req[r].job_description,
                               << <<s, r>> >>)]
            /\ pc' = [pc EXCEPT ![r] = "analyze_structure"]
            /\ UNCHANGED resp
       ELSE /\ Answer(r, [NoResp EXCEPT !.status = 500,
                            !.error = <<"Error initializing RAG system: ", m>>])
            /\ pc' = [pc EXCEPT ![r] = "done"]
            /\ UNCHANGED <<rag_systems, rag_heap, st>>
  /\ UNCHANGED <<assistant_memory, mem_heap, req, calls, asst>>


\* ------------------------------------------------------------------------
\* The nodes of the optimisation graph.  Every node ends at the node its
\* edge leads to.  A log line is modelled by its fixed part.
\* ------------------------------------------------------------------------

\* Step with a conditional edge: a recorded error ends the graph early
Step_exit_on_error(r, node, s) ==
  /\ st' = [st EXCEPT ![r] = Ran(s, node)]
  /\ pc' = [pc EXCEPT ![r] = IF s.error # NoneStr THEN "opt_return"
                             ELSE NextNode(node)]

\* a node has run on the state s and hands it to the next node
Step(r, node, s) ==
  /\ st' = [st EXCEPT ![r] = Ran(s, node)]
  /\ pc' = [pc EXCEPT ![r] = NextNode(node)]

\* Node 1: analyze_cv_structure_tool makes no external call
analyze_structure(r) ==
  /\ pc[r] = "analyze_structure"
  /\ \E raised \in BOOLEAN, m \in NodeMsgs :
       IF ~raised
       THEN Step(r, "analyze_structure",
                 Log([st[r] EXCEPT !.cv_structure = "set"],
                     "ok: Analyzed CV structure"))
       ELSE Step(r, "analyze_structure",
                 [Log(st[r], "err: Error analyzing CV structure")
                    EXCEPT !.error = m])
  /\ UNCHANGED <<rag_systems, rag_heap, assistant_memory, mem_heap, asst,
                 req, resp, calls>>

\* extract_skills_tool: one LLM call; its own try/except turns a failed call
\* into an empty skills list with status "error" and raises nothing
extract_skills_tool(llm_ok) == IF llm_ok THEN "some" ELSE "empty"

\* Nodes 2 and 3: extract_cv_skills and extract_job_skills.  The except
\* branch of the node is taken when the tool invocation itself raises.
extract_skills_node(r, node, field) ==
  /\ pc[r] = node
  /\ \E raised \in BOOLEAN, llm_ok \in BOOLEAN, m \in NodeMsgs :
       IF ~raised
       THEN /\ Call(r, llm_ok)
            /\ Step(r, node,
                  Log([st[r] EXCEPT ![field] = extract_skills_tool(llm_ok)],
                      IF llm_ok THEN "ok: Extracted N skills"
                                ELSE "ok: Extracted 0 skills"))
       ELSE /\ UNCHANGED calls
            /\ Step(r, node,
                  [Log(st[r], "err: Error extracting skills") EXCEPT !.error = m])
  /\ UNCHANGED <<rag_systems, rag_heap, assistant_memory, mem_heap, asst,
                 req, resp>>

extract_cv_skills(r) == extract_skills_node(r, "extract_cv_skills", "cv_skills")

extract_job_skills(r) == extract_skills_node(r, "extract_job_skills", "job_skills")

\* RAGSystem.index_cv / index_jd without a persist directory: the store of
\* the RAG system is replaced by one built from the chunks of the text; when
\* the embedding call fails the method raises and the store is left as it was
index_store(rag, field, text, session_id, type, embed_ok) ==
  IF embed_ok
  THEN [rag EXCEPT ![field] =
          << from_documents(documents(text, session_id, type),
                            <<type, session_id>>) >>]
  ELSE rag

\* index_node whose except branch also records the failure as the error
index_node_fail_sets_error(r, node, field, text, session_id, type) ==
  /\ pc[r] = node
  /\ IF st[r].rag_system # <<>>
     THEN LET id == st[r].rag_system[1] IN
          \E embed_ok \in BOOLEAN :
            /\ Call(r, embed_ok)
            /\ rag_heap' = [rag_heap EXCEPT ![id] =
                 index_store(@, field, text, session_id, type, embed_ok)]
            /\ Step(r, node,
                 IF embed_ok THEN Log(st[r], "ok: Indexed in vector database")
                 ELSE [Log(st[r], "err: Error indexing in RAG")
                         EXCEPT !.error = "connection reset"])
     ELSE /\ UNCHANGED <<calls, rag_heap>>
          /\ Step(r, node, Log(st[r], "warn: RAG system not available"))
  /\ UNCHANGED <<rag_systems, assistant_memory, mem_heap, req, resp, asst>>

\* Nodes 2.5 and 3.5: index_cv_in_rag and index_jd_in_rag.  A failure only
\* appends a log line.
index_node(r, node, field, text, session_id, type) ==
  /\ pc[r] = node
  /\ IF st[r].rag_system # <<>>
     THEN LET id == st[r].rag_system[1] IN
          \E embed_ok \in BOOLEAN :
            /\ Call(r, embed_ok)
            /\ rag_heap' = [rag_heap EXCEPT ![id] =
                 index_store(@, field, text, session_id, type, embed_ok)]
            /\ Step(r, node,
                 Log(st[r], IF embed_ok THEN "ok: Indexed in vector database"
                                        ELSE "err: Error indexing in RAG"))
     ELSE /\ UNCHANGED <<calls, rag_heap>>
          /\ Step(r, node, Log(st[r], "warn: RAG system not available"))
  /\ UNCHANGED <<rag_systems, assistant_memory, mem_heap, req, resp, asst>>

index_cv_in_rag(r) ==
  index_node(r, "index_cv_rag", "cv_vectorstore", st[r].cv_text, "cv", "cv")

index_jd_in_rag(r) ==
  index_node(r, "index_jd_rag", "jd_vectorstore", st[r].job_description,
             "jd", "jd")


\* Node 4: compare_skills.  The RAG comparison is chosen when the RAG system
\* and both of its stores are there; both tools catch their own failures
\* and return a result with status "error" or a fallback bucket, so the
\* except branch of the node is taken only when the invocation itself raises.
compare_skills(r) ==
  /\ pc[r] = "compare_skills"
  /\ LET s0 == st[r]
         rag == IF s0.rag_system = <<>> THEN NewRAGSystem
                ELSE rag_heap[s0.rag_system[1]]
         use_rag == /\ s0.rag_system # <<>>
                    /\ rag.cv_vectorstore # <<>>
                    /\ rag.jd_vectorstore # <<>>
         both == s0.cv_skills = "some" /\ s0.job_skills = "some"
     IN
     \E raised \in BOOLEAN, call_ok \in BOOLEAN, has_cv_only \in BOOLEAN,
        m \in NodeMsgs :
       IF raised
       THEN /\ UNCHANGED calls
            /\ Step(r, "compare_skills",
                 [Log(s0, "err: Error comparing skills") EXCEPT !.error = m])
       ELSE IF use_rag
       THEN \* compare_skills_tool_with_rag: "Empty skills list" before any
            \* embedding call, otherwise the skills are embedded
            /\ IF both THEN Call(r, call_ok)
                       ELSE UNCHANGED calls
            /\ Step(r, "compare_skills",
                 Log(Log([s0 EXCEPT !.skills_comparison =
                            <<[method |-> "rag",
                               status |-> IF both /\ call_ok THEN "success"
                                          ELSE "error",
                               cv_store |-> rag.cv_vectorstore,
                               jd_store |-> rag.jd_vectorstore]>>],
                         "ok: Compared skills using RAG + cosine similarity"),
                     "ok: Compared skills"))
       ELSE \* compare_skills_tool: the LLM is asked only when some CV skill
            \* is unmatched; a failed call falls back to all of cv_only
            /\ IF s0.cv_skills = "some" /\ has_cv_only
               THEN Call(r, call_ok)
               ELSE UNCHANGED calls
            /\ Step(r, "compare_skills",
                 Log(Log([s0 EXCEPT !.skills_comparison =
                            <<[method |-> "traditional", status |-> "success",
                               cv_store |-> <<>>, jd_store |-> <<>>]>>],
                         "ok: Compared skills using traditional method"),
                     "ok: Compared skills"))
  /\ UNCHANGED <<rag_systems, rag_heap, assistant_memory, mem_heap, asst,
                 req, resp>>

\* Node 5: generate_optimized_cv.  With a RAG system it first retrieves from
\* whatever stores the RAG system holds (retrieve_from_cv and
\* retrieve_from_jd return [] for a missing store or a failed search), then
\* it calls the LLM.
generate_optimized_cv(r) ==
  /\ pc[r] = "generate_cv"
  /\ LET s0 == st[r]
         rag == IF s0.rag_system = <<>> THEN NewRAGSystem
                ELSE rag_heap[s0.rag_system[1]]
         searches == s0.rag_system # <<>>
                     /\ (rag.cv_vectorstore # <<>> \/ rag.jd_vectorstore # <<>>)
     IN
     \E search_ok \in BOOLEAN, llm_ok \in BOOLEAN, m \in NodeMsgs :
       LET cv_sources == IF searches /\ search_ok THEN rag.cv_vectorstore
                         ELSE <<>>
           jd_sources == IF searches /\ search_ok THEN rag.jd_vectorstore
                         ELSE <<>>
           s1 == IF cv_sources # <<>> \/ jd_sources # <<>>
                 THEN Log(s0, "ok: Retrieved chunks using RAG")
                 ELSE s0
           searched == IF searches THEN Called(calls[r], search_ok)
                       ELSE calls[r]
       IN
       /\ calls' = [calls EXCEPT ![r] = Called(searched, llm_ok)]
       /\ IF llm_ok
          THEN Step(r, "generate_cv",
                 Log([s1 EXCEPT !.optimized_cv = "optimized",
                        !.sources = <<[cv_sources |-> cv_sources,
                                       jd_sources |-> jd_sources]>>],
                     "ok: Generated optimized CV"))
          ELSE Step(r, "generate_cv",
                 [Log(s1, "err: Error generating CV") EXCEPT !.error = m])
  /\ UNCHANGED <<rag_systems, rag_heap, assistant_memory, mem_heap, asst,
                 req, resp>>

\* opt_return whose error result carries the CV that generate_cv produced
opt_return_keeps_cv(r) ==
  /\ pc[r] = "opt_return"
  /\ IF st[r].error # NoneStr
     THEN Answer(r, [NoResp EXCEPT !.status = 500,
            !.result_error = st[r].error,
            !.error = user_message(parse_openai_error(st[r].error)),
            !.optimized_cv = st[r].optimized_cv,
            !.agent_logs = st[r].agent_logs])
     ELSE Answer(r, [NoResp EXCEPT !.status = 200,
            !.optimized_cv = st[r].optimized_cv,
            !.agent_logs = st[r].agent_logs])
  /\ pc' = [pc EXCEPT ![r] = "done"]
  /\ UNCHANGED <<rag_systems, rag_heap, assistant_memory, mem_heap, asst,
                 req, st, calls>>

\* the end of optimize_cv_with_agent and of api_optimize_cv: an error in the
\* final state gives the error result (optimized_cv None, the logs), which
\* the endpoint answers with 500 and the category text; otherwise 200
opt_return(r) ==
  /\ pc[r] = "opt_return"
  /\ IF st[r].error # NoneStr
     THEN Answer(r, [NoResp EXCEPT !.status = 500,
            !.result_error = st[r].error,
            !.error = user_message(parse_openai_error(st[r].error)),
            !.optimized_cv = NoneStr,
            !.agent_logs = st[r].agent_logs])
     ELSE Answer(r, [NoResp EXCEPT !.status = 200,
            !.optimized_cv = st[r].optimized_cv,
            !.agent_logs = st[r].agent_logs])
  /\ pc' = [pc EXCEPT ![r] = "done"]
  /\ UNCHANGED <<rag_systems, rag_heap, assistant_memory, mem_heap, asst,
                 req, st, calls>>

\* ------------------------------------------------------------------------
\* /api/assistant
\* ------------------------------------------------------------------------

\* memory.chat_memory.messages of the memory the session holds
History(s) ==
  IF assistant_memory[s].present /\ assistant_memory[s].obj # <<>>
  THEN mem_heap[assistant_memory[s].obj[1]]
  ELSE <<>>

\* memory_setup without the membership test: every request creates a memory
memory_setup_always(s) == "asst_mem_init"

\* "if session_id not in assistant_memory": where api_assistant goes on
memory_setup(s) ==
  IF assistant_memory[s].present THEN "asst_rag" ELSE "asst_mem_init"

\* api_assistant that sets up the memory of the session before it validates
\* the body
api_assistant_setup_first(r, s) ==
  /\ pc[r] = "idle"
  /\ Len(History(s)) + 4 <= MaxMsgs
  /\ \E k \in {"", "sk"}, q \in {"", "q"}, cv \in {"", "cv0"},
        numbers_ok \in BOOLEAN :
       /\ req' = [req EXCEPT ![r] =
                    [IdleReq EXCEPT !.kind = "assistant", !.session_id = s,
                       !.api_key = k, !.request = q, !.optimized_cv = cv]]
       /\ calls' = [calls EXCEPT ![r] = NoCalls]
       /\ IF ~numbers_ok
          THEN /\ Answer(r, [NoResp EXCEPT !.status = 500,
                    !.error = user_message(parse_openai_error(ValueErrorMsg))])
               /\ pc' = [pc EXCEPT ![r] = "done"]
          ELSE IF k = ""
          THEN /\ Answer(r, [NoResp EXCEPT !.status = 400,
                               !.error = text_message("API key is required")])
               /\ pc' = [pc EXCEPT ![r] = "done"]
          ELSE IF q = ""
          THEN /\ Answer(r, [NoResp EXCEPT !.status = 400,
                               !.error = text_message("User request is required")])
               /\ pc' = [pc EXCEPT ![r] = "done"]
          ELSE IF cv = ""
          THEN /\ Answer(r, [NoResp EXCEPT !.status = 400,
                               !.error = text_message("Optimized CV is required")])
               /\ pc' = [pc EXCEPT ![r] = "done"]
          ELSE /\ resp' = [resp EXCEPT ![r] = NoResp]
               /\ pc' = [pc EXCEPT ![r] = memory_setup(s)]
  /\ assistant_memory' =
       [assistant_memory EXCEPT ![s] =
          IF @.present THEN @ ELSE Holds(<< <<s, r>> >>)]
  /\ UNCHANGED <<rag_systems, rag_heap, mem_heap, st, asst>>

\* api_assistant up to the membership test of the memory setup: reads the
\* body (float() of the temperature comes before the validation), validates
\* it, and either finds the session's memory or goes on to create one
api_assistant(r, s) ==
  /\ pc[r] = "idle"
  /\ Len(History(s)) + 4 <= MaxMsgs
  /\ \E k \in {"", "sk"}, q \in {"", "q"}, cv \in {"", "cv0"},
        numbers_ok \in BOOLEAN :
       /\ req' = [req EXCEPT ![r] =
                    [IdleReq EXCEPT !.kind = "assistant", !.session_id = s,
                       !.api_key = k, !.request = q, !.optimized_cv = cv]]
       /\ calls' = [calls EXCEPT ![r] = NoCalls]
       /\ IF ~numbers_ok
          THEN /\ Answer(r, [NoResp EXCEPT !.status = 500,
                    !.error = user_message(parse_openai_error(ValueErrorMsg))])
               /\ pc' = [pc EXCEPT ![r] = "done"]
          ELSE IF k = ""
          THEN /\ Answer(r, [NoResp EXCEPT !.status = 400,
                               !.error = text_message("API key is required")])
               /\ pc' = [pc EXCEPT ![r] = "done"]
          ELSE IF q = ""
          THEN /\ Answer(r, [NoResp EXCEPT !.status = 400,
                               !.error = text_message("User request is required")])
               /\ pc' = [pc EXCEPT ![r] = "done"]
          ELSE IF cv = ""
          THEN /\ Answer(r, [NoResp EXCEPT !.status = 400,
                               !.error = text_message("Optimized CV is required")])
               /\ pc' = [pc EXCEPT ![r] = "done"]
          ELSE /\ resp' = [resp EXCEPT ![r] = NoResp]
               /\ pc' = [pc EXCEPT ![r] = memory_setup(s)]
  /\ UNCHANGED <<rag_systems, rag_heap, assistant_memory, mem_heap, st, asst>>

\* the body of "if session_id not in assistant_memory": a new, empty
\* ConversationBufferMemory is stored under the session
asst_mem_init(r) ==
  /\ pc[r] = "asst_mem_init"
  /\ LET s == req[r].session_id IN
       /\ assistant_memory' =
            [assistant_memory EXCEPT ![s] = Holds(<< <<s, r>> >>)]
       /\ mem_heap' = [mem_heap EXCEPT ![<<s, r>>] = <<>>]
  /\ pc' = [pc EXCEPT ![r] = "asst_rag"]
  /\ UNCHANGED <<rag_systems, rag_heap, req, st, resp, calls, asst>>

\* memory = assistant_memory[session_id], then the membership test of the
\* RAG setup
asst_rag(r) ==
  /\ pc[r] = "asst_rag"
  /\ LET s == req[r].session_id IN
       /\ asst' = [asst EXCEPT ![r].memory = assistant_memory[s].obj]
       /\ pc' = [pc EXCEPT ![r] = IF rag_systems[s].present THEN "asst_call"
                                  ELSE "asst_rag_init"]
  /\ UNCHANGED <<rag_systems, rag_heap, assistant_memory, mem_heap,
                 req, st, resp, calls>>

\* the body of "if session_id not in rag_systems" of api_assistant:
\* RAGSystem(api_key) is stored under the session, or None when it raises
asst_rag_init(r) ==
  /\ pc[r] = "asst_rag_init"
  /\ LET s == req[r].session_id IN
     \E init_ok \in BOOLEAN :
       IF init_ok
       THEN /\ rag_systems' = [rag_systems EXCEPT ![s] = Holds(<< <<s, r>> >>)]
            /\ rag_heap' = [rag_heap EXCEPT ![<<s, r>>] = NewRAGSystem]
       ELSE /\ rag_systems' = [rag_systems EXCEPT ![s] = Holds(<<>>)]
            /\ UNCHANGED rag_heap
  /\ pc' = [pc EXCEPT ![r] = "asst_call"]
  /\ UNCHANGED <<assistant_memory, mem_heap, req, st, resp, calls, asst>>

\* rag_system = rag_systems.get(session_id), then
\* process_assistant_request_with_agent up to the run of the agent: the LLM
\* client and the tools are built (a failure there goes to the outer except
\* branch), the RAG system, when there is one, is searched with the user's
\* request (a failed search is swallowed), and the AgentExecutor is built,
\* which it is not when the import or the construction failed
asst_call(r) ==
  /\ pc[r] = "asst_call"
  /\ LET rag_system == rag_systems[req[r].session_id].obj
         rag == IF rag_system = <<>> THEN NewRAGSystem
                ELSE rag_heap[rag_system[1]]
         searches == rag.cv_vectorstore # <<>> \/ rag.jd_vectorstore # <<>>
     IN
     \E setup_ok \in BOOLEAN, search_ok \in BOOLEAN,
        use_agent_executor \in BOOLEAN, m \in Msgs :
       IF ~setup_ok
       THEN /\ resp' = [resp EXCEPT ![r].result_error = m,
                          ![r].action = NoneStr,
                          ![r].updated_cv = req[r].optimized_cv]
            /\ pc' = [pc EXCEPT ![r] = "asst_return"]
            /\ UNCHANGED <<calls, asst>>
       ELSE /\ asst' = [asst EXCEPT ![r].current_cv = req[r].optimized_cv]
            /\ IF searches THEN Call(r, search_ok) ELSE UNCHANGED calls
            /\ pc' = [pc EXCEPT ![r] = IF use_agent_executor THEN "asst_exec"
                                       ELSE "asst_fallback"]
            /\ UNCHANGED resp
  /\ UNCHANGED <<rag_systems, rag_heap, assistant_memory, mem_heap,
                 req, st>>

\* what the search for a CV in the text of the explanation leaves in
\* updated_cv: the given CV when it finds none, or the CV it found
UpdatedCvs(r) == {req[r].optimized_cv, "cv1"}

\* the most tool calls of one run of the agent
MaxToolCalls == 2

\* the texts an update of a section can produce
CvVersions == {"cv0", "cv1", "cv2"}

\* update_cv_section_tool as the wrapper sees it: the new text with status
\* success, or the text it was given with status error
update_cv_section_result(cv_text, status, new_cv) ==
  [tool |-> "update_cv_section", cv_text |-> cv_text, status |-> status,
   updated_cv |-> IF status = "success" THEN new_cv ELSE cv_text]

\* search_cv_content_tool as the wrapper sees it: no updated_cv
search_cv_result(cv_text, status) ==
  [tool |-> "search_cv", cv_text |-> cv_text, status |-> status,
   updated_cv |-> NoneStr]

\* update_cv_section_wrapper: current_cv[0] after the call
update_cv_section_wrapper(current_cv, result) ==
  IF result.status = "success" /\ result.updated_cv # NoneStr
  THEN result.updated_cv
  ELSE current_cv

\* the loop over reversed(intermediate_steps): every step with an
\* updated_cv assigns last_updated_cv, so the first one of the run is left
RECURSIVE last_updated_cv_of(_)
last_updated_cv_of(steps) ==
  IF steps = <<>> THEN NoneStr
  ELSE IF Head(steps).updated_cv # NoneStr THEN Head(steps).updated_cv
  ELSE last_updated_cv_of(Tail(steps))

\* the closure that leaves updated_cv as it is
from_closure_ignored(updated_cv, current_cv, optimized_cv) == updated_cv

\* current_cv_from_tools = get_current_cv(), taken when it differs from the
\* given CV
from_closure(updated_cv, current_cv, optimized_cv) ==
  IF current_cv # "" /\ current_cv # optimized_cv THEN current_cv
  ELSE updated_cv

\* the CV searched for in the explanation, only when updated_cv is still
\* the given CV
from_explanation(updated_cv, optimized_cv, extracted_cv) ==
  IF updated_cv = optimized_cv THEN extracted_cv ELSE updated_cv

\* updated_cv of a run of the AgentExecutor
executor_updated_cv(optimized_cv, steps, current_cv, substantial, extracted_cv) ==
  LET last_updated_cv == last_updated_cv_of(steps)
      from_steps == IF last_updated_cv # NoneStr /\ substantial
                    THEN last_updated_cv ELSE optimized_cv
  IN from_explanation(from_closure(from_steps, current_cv, optimized_cv),
                      optimized_cv, extracted_cv)

\* updated_cv of the fallback
fallback_updated_cv(optimized_cv, current_cv, extracted_cv) ==
  from_explanation(from_closure(optimized_cv, current_cv, optimized_cv),
                   optimized_cv, extracted_cv)

\* action that is "update_cv" whatever the CV is
action_of_always(updated_cv, optimized_cv) == "update_cv"

\* action = "update_cv" if updated_cv != optimized_cv else None
action_of(updated_cv, optimized_cv) ==
  IF updated_cv # optimized_cv THEN "update_cv" ELSE NoneStr

\* memory.chat_memory.add_user_message(user_request) followed by
\* add_ai_message(explanation)
add_messages(messages) ==
  messages \o << <<"human", "user_request">>, <<"ai", "explanation">> >>

\* what the AgentExecutor built with memory=memory does after a successful
\* run: save_context(inputs, outputs) appends the input text and the output.
\* Whether it does is decided by the installed library, for a result with
\* intermediate steps.
save_context(messages, saves) ==
  IF saves
  THEN messages \o << <<"human", "input_text">>, <<"ai", "explanation">> >>
  ELSE messages

\* asst_exec that runs the agent again when the run failed
asst_exec_retry(r) ==
  /\ pc[r] = "asst_exec"
  /\ \E ok \in BOOLEAN, saves \in BOOLEAN, substantial \in BOOLEAN, extracted_cv \in UpdatedCvs(r) :
       /\ Call(r, ok)
       /\ asst' = [asst EXCEPT ![r].agent_executor = @ + 1]
       /\ IF ok
          THEN /\ mem_heap' = [mem_heap EXCEPT ![asst[r].memory[1]] =
                                 add_messages(save_context(@, saves))]
               /\ LET updated_cv ==
                        executor_updated_cv(req[r].optimized_cv, asst[r].steps,
                          asst[r].current_cv, substantial, extracted_cv)
                  IN resp' = [resp EXCEPT ![r].updated_cv = updated_cv,
                                ![r].action =
                                  action_of(updated_cv, req[r].optimized_cv)]
               /\ pc' = [pc EXCEPT ![r] = "asst_return"]
          ELSE /\ pc' = [pc EXCEPT ![r] =
                           IF asst[r].agent_executor = 0 THEN "asst_exec"
                           ELSE "asst_fallback"]
               /\ UNCHANGED <<mem_heap, resp>>
  /\ UNCHANGED <<rag_systems, rag_heap, assistant_memory, req, st>>

\* agent_executor.invoke: a successful run appends the two messages to the
\* memory and returns the result; a failed run only switches to the fallback
asst_exec(r) ==
  /\ pc[r] = "asst_exec"
  /\ \E ok \in BOOLEAN, saves \in BOOLEAN, substantial \in BOOLEAN, extracted_cv \in UpdatedCvs(r) :
       /\ Call(r, ok)
       /\ asst' = [asst EXCEPT ![r].agent_executor = @ + 1]
       /\ IF ok
          THEN /\ mem_heap' = [mem_heap EXCEPT ![asst[r].memory[1]] =
                                 add_messages(save_context(@, saves))]
               /\ LET updated_cv ==
                        executor_updated_cv(req[r].optimized_cv, asst[r].steps,
                          asst[r].current_cv, substantial, extracted_cv)
                  IN resp' = [resp EXCEPT ![r].updated_cv = updated_cv,
                                ![r].action =
                                  action_of(updated_cv, req[r].optimized_cv)]
               /\ pc' = [pc EXCEPT ![r] = "asst_return"]
          ELSE /\ pc' = [pc EXCEPT ![r] = "asst_fallback"]
               /\ UNCHANGED <<mem_heap, resp>>
  /\ UNCHANGED <<rag_systems, rag_heap, assistant_memory, req, st>>

\* one call of a CV tool during agent_executor.invoke.  The Tool calls the
\* wrapper with the input the agent wrote; when that does not bind to the
\* parameters of the wrapper the call raises and the run of the agent fails.
asst_tool(r) ==
  /\ pc[r] = "asst_exec"
  /\ Len(asst[r].steps) < MaxToolCalls
  /\ \E tool \in {"search_cv", "update_cv_section"}, binds \in BOOLEAN,
        status \in {"success", "error"}, new_cv \in CvVersions :
       IF ~binds
       THEN /\ asst' = [asst EXCEPT ![r].agent_executor = @ + 1]
            /\ pc' = [pc EXCEPT ![r] = "asst_fallback"]
       ELSE LET cv_text == asst[r].current_cv
                result == IF tool = "update_cv_section"
                          THEN update_cv_section_result(cv_text, status, new_cv)
                          ELSE search_cv_result(cv_text, status)
            IN /\ asst' = [asst EXCEPT
                            ![r].steps = Append(@, result),
                            ![r].current_cv =
                              IF tool = "update_cv_section"
                              THEN update_cv_section_wrapper(@, result)
                              ELSE @]
               /\ UNCHANGED pc
  /\ UNCHANGED <<rag_systems, rag_heap, assistant_memory, mem_heap,
                 req, st, resp, calls>>

\* the fallback: chain.invoke, one plain LLM call; a success appends the two
\* messages and returns the result, a failure goes to the outer except
\* branch, which returns {"error": str(e)}
asst_fallback(r) ==
  /\ pc[r] = "asst_fallback"
  /\ \E ok \in BOOLEAN, extracted_cv \in UpdatedCvs(r), m \in Msgs :
       /\ Call(r, ok)
       /\ asst' = [asst EXCEPT ![r].chain = @ + 1]
       /\ IF ok
          THEN /\ mem_heap' = [mem_heap EXCEPT ![asst[r].memory[1]] =
                                 add_messages(@)]
               /\ LET updated_cv ==
                        fallback_updated_cv(req[r].optimized_cv,
                          asst[r].current_cv, extracted_cv)
                  IN resp' = [resp EXCEPT ![r].updated_cv = updated_cv,
                                ![r].action =
                                  action_of(updated_cv, req[r].optimized_cv)]
          ELSE /\ resp' = [resp EXCEPT ![r].result_error = m,
                             ![r].action = NoneStr,
                             ![r].updated_cv = req[r].optimized_cv]
               /\ UNCHANGED mem_heap
  /\ pc' = [pc EXCEPT ![r] = "asst_return"]
  /\ UNCHANGED <<rag_systems, rag_heap, assistant_memory, req, st>>

\* the end of api_assistant: a result with an error is answered with 500 and
\* result['error'] as it is, any other result with 200
asst_return(r) ==
  /\ pc[r] = "asst_return"
  /\ IF resp[r].result_error # NoneStr
     THEN resp' = [resp EXCEPT ![r].status = 500,
                     ![r].error = raw_message(resp[r].result_error)]
     ELSE resp' = [resp EXCEPT ![r].status = 200]
  /\ pc' = [pc EXCEPT ![r] = "done"]
  /\ UNCHANGED <<rag_systems, rag_heap, assistant_memory, mem_heap,
                 req, st, calls, asst>>

\* the answer has been sent; the slot is free for the next request
Finish(r) ==
  /\ pc[r] = "done"
  /\ pc' = [pc EXCEPT ![r] = "idle"]
  /\ req' = [req EXCEPT ![r] = IdleReq]
  /\ st' = [st EXCEPT ![r] = IdleState]
  /\ resp' = [resp EXCEPT ![r] = NoResp]
  /\ calls' = [calls EXCEPT ![r] = NoCalls]
  /\ asst' = [asst EXCEPT ![r] = NoAsst]
  /\ UNCHANGED <<rag_systems, rag_heap, assistant_memory, mem_heap>>

\* requests are served one after the other, in the first slot
Sequential(r) == r = "r1"

Pipeline(r) ==
  \/ opt_rag_init(r)
  \/ analyze_structure(r)
  \/ extract_cv_skills(r)
  \/ index_cv_in_rag(r)
  \/ extract_job_skills(r)
  \/ index_jd_in_rag(r)
  \/ compare_skills(r)
  \/ generate_optimized_cv(r)
  \/ opt_return(r)

NextOpt ==
  /\ \E r \in Reqs :
       \/ Sequential(r) /\ \E s \in Sessions : api_optimize_cv(r, s)
       \/ Pipeline(r)
       \/ Finish(r)
  /\ UNCHANGED pure

Assistant(r) ==
  \/ asst_mem_init(r)
  \/ asst_rag(r)
  \/ asst_rag_init(r)
  \/ asst_call(r)
  \/ asst_exec(r)
  \/ asst_fallback(r)
  \/ asst_return(r)

\* assistant requests of two sessions
NextAsst ==
  /\ \E r \in Reqs :
       \/ Sequential(r) /\ \E s \in Sessions : api_assistant(r, s)
       \/ Assistant(r)
       \/ Finish(r)
  /\ UNCHANGED pure

\* optimisation and assistant requests of one session
NextApp ==
  /\ \E r \in Reqs :
       \/ Sequential(r) /\ api_optimize_cv(r, "s1")
       \/ Sequential(r) /\ api_assistant(r, "s1")
       \/ Pipeline(r)
       \/ Assistant(r)
       \/ Finish(r)
  /\ UNCHANGED pure

NoCmpIn == [cv_skills |-> <<>>, job_skills |-> <<>>, ai |-> FALSE]

NoCmpOut ==
  [fn |-> "none", matched |-> <<>>, cv_only |-> <<>>, job_only |-> <<>>,
   interesting |-> <<>>, pairs |-> <<>>, status |-> "none"]

NoRagIn ==
  [cv_skills |-> <<>>, job_skills |-> <<>>, similarity_matrix |-> <<>>,
   cv_vectorstore |-> <<>>, jd_vectorstore |-> <<>>]

NoRagOut ==
  [matched |-> <<>>, matched_details |-> <<>>, cv_only |-> <<>>,
   job_only |-> <<>>, interesting |-> <<>>, status |-> "none"]

InitCmp == cmp_in = NoCmpIn /\ cmp_out = NoCmpOut

InitRagCmp == rag_in = NoRagIn /\ rag_out = NoRagOut

InitPure == InitCmp /\ InitRagCmp

Init == InitWeb /\ InitPure

SpecOpt == Init /\ [][NextOpt]_vars

SpecAsst == Init /\ [][NextAsst]_vars

SpecApp == Init /\ [][NextApp]_vars

\* assistant requests of one session whose agent calls the CV tools
NextTools ==
  /\ \E r \in Reqs :
       \/ Sequential(r) /\ api_assistant(r, "s1")
       \/ Assistant(r)
       \/ asst_tool(r)
       \/ Finish(r)
  /\ UNCHANGED pure

SpecTools == Init /\ [][NextTools]_vars


\* ------------------------------------------------------------------------
\* Properties of the optimisation pipeline
\* ------------------------------------------------------------------------

Nodes == { execution_order[i] : i \in 1..Len(execution_order) }

Prefix(t, u) == Len(t) <= Len(u) /\ t = SubSeq(u, 1, Len(t))

InTrace(r, node) == \E i \in 1..Len(st[r].trace) : st[r].trace[i] = node

\* the pipeline of slot r has run to its end
PipelineEnded(r) ==
  \/ pc[r] = "opt_return"
  \/ pc[r] = "done" /\ req[r].kind = "optimize" /\ resp[r].agent_logs > 0

\* C1: every run of optimize_cv_with_agent executes the seven nodes
\* analyze_structure, extract_cv_skills, index_cv_rag, extract_job_skills,
\* index_jd_rag, compare_skills, generate_cv exactly once each, in that
\* order, also after a node has recorded an error: the nodes run so far are
\* always a prefix of that order, the node about to run is the next of it,
\* and the run ends only after all seven.
C1_NodesOnceInOrder ==
  \A r \in Reqs :
    /\ Prefix(st[r].trace, execution_order)
    /\ pc[r] \in Nodes => pc[r] = execution_order[Len(st[r].trace) + 1]
    /\ pc[r] = "opt_return" => st[r].trace = execution_order

\* a run in which the first node failed and all seven nodes ran
C1_Witness ==
  \E r \in Reqs :
    /\ pc[r] = "opt_return"
    /\ st[r].cv_structure = NoneStr
    /\ st[r].error # NoneStr
    /\ st[r].trace = execution_order

C3_IndexFailureIsOnlyLogged ==
  /\ [][ \A r \in Reqs :
           (pc[r] \in {"index_cv_rag", "index_jd_rag"} /\ pc'[r] # pc[r])
             => /\ st'[r].error = st[r].error
                /\ st'[r].agent_logs = st[r].agent_logs + 1
                /\ pc'[r] = NextNode(pc[r]) ]_vars
  /\ [](\A r \in Reqs :
          PipelineEnded(r)
            => InTrace(r, "compare_skills") /\ InTrace(r, "generate_cv"))

\* the CV could not be indexed (the RAG system still has no CV store after
\* index_cv_rag), yet the run ended without error and with a CV
C3_Witness ==
  \E r \in Reqs :
    /\ pc[r] = "opt_return"
    /\ st[r].rag_system # <<>>
    /\ rag_heap[st[r].rag_system[1]].cv_vectorstore = <<>>
    /\ InTrace(r, "index_cv_rag")
    /\ calls[r].failed
    /\ st[r].error = NoneStr
    /\ st[r].optimized_cv = "optimized"


\* ------------------------------------------------------------------------
\* The heuristic skills comparison: skills_matcher.match_skills and
\* tools.compare_skills_tool.  A skill is a string, modelled as a tuple of
\* characters.
\* ------------------------------------------------------------------------

\* longest skills list handed to the comparison
MaxSkills == 2

\* the skills a list may hold: "A", "a", "ab", "b " and "c"
SkillStrings ==
  { <<"A">>, <<"a">>, <<"a", "b">>, <<"b", " ">>, <<"c">> }

\* the skills the LLM may name as interesting in its JSON answer
AnswerStrings == { <<"A">>, <<"b">>, <<"c">> }

SeqsUpTo(S, n) == UNION { [1..k -> S] : k \in 0..n }

\* the cased characters, each capital at the place of its small letter
lowercase == 
  <<"a", "b", "c", "d", "e", "f", "g", "h", "i", "j", "k", "l", "m">> \o
  <<"n", "o", "p", "q", "r", "s", "t", "u", "v", "w", "x", "y", "z">>

uppercase == 
  <<"A", "B", "C", "D", "E", "F", "G", "H", "I", "J", "K", "L", "M">> \o
  <<"N", "O", "P", "Q", "R", "S", "T", "U", "V", "W", "X", "Y", "Z">>

\* the lower-case form of one character
LowerOf(c) ==
  IF \E i \in 1..Len(uppercase) : uppercase[i] = c
  THEN lowercase[CHOOSE i \in 1..Len(uppercase) : uppercase[i] = c]
  ELSE c

\* str.lower()
lower(s) == [i \in 1..Len(s) |-> LowerOf(s[i])]

\* str.strip()
RECURSIVE strip(_)
strip(s) ==
  IF s = <<>> THEN s
  ELSE IF Head(s) = " " THEN strip(Tail(s))
  ELSE IF s[Len(s)] = " " THEN strip(SubSeq(s, 1, Len(s) - 1))
  ELSE s

\* skill.lower().strip()
normalize(skill) == strip(lower(skill))

\* Python's "a in b" on strings
IsIn(a, b) ==
  \E i \in 0..(Len(b) - Len(a)) : SubSeq(b, i + 1, i + Len(a)) = a

\* the match test of both loops: equal, or one contains the other
related(cv_key, job_key) ==
  cv_key = job_key \/ IsIn(cv_key, job_key) \/ IsIn(job_key, cv_key)

\* {skill.lower().strip(): skill for skill in skills}: a dict keeps a key at
\* the place of its first insertion and with the value of its last one.
\* The dict is the sequence of its <<key, value>> items.
RECURSIVE normalized(_)
normalized(skills) ==
  IF skills = <<>> THEN <<>>
  ELSE LET d == normalized(SubSeq(skills, 1, Len(skills) - 1))
           v == skills[Len(skills)]
           k == normalize(v)
           at == { i \in 1..Len(d) : d[i][1] = k }
       IN IF at = {} THEN Append(d, <<k, v>>)
          ELSE [i \in 1..Len(d) |-> IF i \in at THEN <<k, v>> ELSE d[i]]

MinOf(S) == CHOOSE x \in S : \A y \in S : x <= y

\* the inner loop with its break: the first job item related to cv_key,
\* 0 when there is none
first_match(cv_key, job_normalized) ==
  LET J == { j \in 1..Len(job_normalized) :
               related(cv_key, job_normalized[j][1]) }
  IN IF J = {} THEN 0 ELSE MinOf(J)

\* the first loop: matched pairs, in the order of the CV items
RECURSIVE matched_pairs(_, _)
matched_pairs(cv_normalized, job_normalized) ==
  IF cv_normalized = <<>> THEN <<>>
  ELSE LET rest == matched_pairs(SubSeq(cv_normalized, 1,
                                        Len(cv_normalized) - 1),
                                 job_normalized)
           item == cv_normalized[Len(cv_normalized)]
           j == first_match(item[1], job_normalized)
       IN IF j = 0 THEN rest
          ELSE Append(rest,
                 [cv_skill |-> item[2], job_skill |-> job_normalized[j][2],
                  match_type |-> IF item[1] = job_normalized[j][1]
                                 THEN "exact" ELSE "partial"])

\* the first loop: the CV items without a match
RECURSIVE unmatched_cv(_, _)
unmatched_cv(cv_normalized, job_normalized) ==
  IF cv_normalized = <<>> THEN <<>>
  ELSE LET rest == unmatched_cv(SubSeq(cv_normalized, 1,
                                       Len(cv_normalized) - 1),
                                job_normalized)
           item == cv_normalized[Len(cv_normalized)]
       IN IF first_match(item[1], job_normalized) = 0
          THEN Append(rest, item[2]) ELSE rest

\* the second loop testing only equality and "cv_key in job_key"
RECURSIVE unmatched_job_one_way(_, _)
unmatched_job_one_way(job_normalized, cv_normalized) ==
  IF job_normalized = <<>> THEN <<>>
  ELSE LET rest == unmatched_job_one_way(SubSeq(job_normalized, 1,
                                                Len(job_normalized) - 1),
                                         cv_normalized)
           item == job_normalized[Len(job_normalized)]
           found_in_cv == \E i \in 1..Len(cv_normalized) :
                            \/ cv_normalized[i][1] = item[1]
                            \/ IsIn(cv_normalized[i][1], item[1])
       IN IF found_in_cv THEN rest ELSE Append(rest, item[2])

\* the second loop: the job items to which no CV item is related
RECURSIVE unmatched_job(_, _)
unmatched_job(job_normalized, cv_normalized) ==
  IF job_normalized = <<>> THEN <<>>
  ELSE LET rest == unmatched_job(SubSeq(job_normalized, 1,
                                        Len(job_normalized) - 1),
                                 cv_normalized)
           item == job_normalized[Len(job_normalized)]
           found_in_cv == \E i \in 1..Len(cv_normalized) :
                            related(cv_normalized[i][1], item[1])
       IN IF found_in_cv THEN rest ELSE Append(rest, item[2])

Elems(q) == { q[i] : i \in 1..Len(q) }

Keep(q, S) == SelectSeq(q, LAMBDA x : x \in S)

Drop(q, S) == SelectSeq(q, LAMBDA x : x \notin S)

\* the interesting bucket.  ai says whether the LLM is asked (cv_only,
\* api_key, cv_text and job_text all non-empty); answer is what came back:
\* "failed" (the call raised), "not json" (JSONDecodeError), or the set of
\* strings of the JSON list.
interesting_of(cv_only, ai, answer) ==
  IF cv_only # <<>> /\ ai
  THEN IF answer.kind \in {"failed", "not json"} THEN cv_only
       ELSE LET interesting_normalized ==
                  { normalize(x) : x \in answer.list }
            IN Keep(cv_only,
                    { x \in Elems(cv_only) :
                        normalize(x) \in interesting_normalized })
  ELSE cv_only

\* match_skills that returns cv_only without taking the interesting skills
\* out of it
match_skills_unfiltered(cv_skills, job_skills, ai, answer) ==
  LET cv_normalized == normalized(cv_skills)
      job_normalized == normalized(job_skills)
      matched == matched_pairs(cv_normalized, job_normalized)
      cv_only == unmatched_cv(cv_normalized, job_normalized)
      job_only == unmatched_job(job_normalized, cv_normalized)
      interesting == interesting_of(cv_only, ai, answer)
  IN [matched |-> [i \in 1..Len(matched) |-> matched[i].cv_skill],
      cv_only |-> cv_only,
      job_only |-> job_only,
      interesting |-> interesting,
      pairs |-> matched,
      status |-> "success"]

\* skills_matcher.match_skills; pairs is its local list matched
match_skills(cv_skills, job_skills, ai, answer) ==
  LET cv_normalized == normalized(cv_skills)
      job_normalized == normalized(job_skills)
      matched == matched_pairs(cv_normalized, job_normalized)
      cv_only == unmatched_cv(cv_normalized, job_normalized)
      job_only == unmatched_job(job_normalized, cv_normalized)
      interesting == interesting_of(cv_only, ai, answer)
  IN [matched |-> [i \in 1..Len(matched) |-> matched[i].cv_skill],
      cv_only |-> Drop(cv_only, Elems(interesting)),
      job_only |-> job_only,
      interesting |-> interesting,
      pairs |-> matched,
      status |-> "success"]

\* tools.compare_skills_tool: the same loops inside a try/except; on string
\* lists nothing in them raises
compare_skills_tool(cv_skills, job_skills, ai, answer) ==
  LET cv_normalized == normalized(cv_skills)
      job_normalized == normalized(job_skills)
      matched == matched_pairs(cv_normalized, job_normalized)
      cv_only == unmatched_cv(cv_normalized, job_normalized)
      job_only == unmatched_job(job_normalized, cv_normalized)
      interesting == interesting_of(cv_only, ai, answer)
  IN [matched |-> [i \in 1..Len(matched) |-> matched[i].cv_skill],
      cv_only |-> Drop(cv_only, Elems(interesting)),
      job_only |-> job_only,
      interesting |-> interesting,
      pairs |-> matched,
      status |-> "success"]


\* what the LLM can answer when asked for the interesting skills
Answers ==
  { [kind |-> k, list |-> {}] : k \in {"failed", "not json"} }
    \cup { [kind |-> "list", list |-> L] : L \in SUBSET AnswerStrings }

WithFn(result, fn) ==
  [fn |-> fn, matched |-> result.matched, cv_only |-> result.cv_only,
   job_only |-> result.job_only, interesting |-> result.interesting,
   pairs |-> result.pairs, status |-> result.status]

\* /api/match-skills and the assistant's comparison call match_skills
call_match_skills ==
  /\ cmp_out.fn = "none"
  /\ \E answer \in Answers :
       cmp_out' = WithFn(match_skills(cmp_in.cv_skills, cmp_in.job_skills,
                                      cmp_in.ai, answer), "match_skills")
  /\ UNCHANGED <<cmp_in, rag_in, rag_out, web>>

\* the compare_skills node calls compare_skills_tool
call_compare_skills_tool ==
  /\ cmp_out.fn = "none"
  /\ \E answer \in Answers :
       cmp_out' = WithFn(compare_skills_tool(cmp_in.cv_skills,
                           cmp_in.job_skills, cmp_in.ai, answer),
                         "compare_skills_tool")
  /\ UNCHANGED <<cmp_in, rag_in, rag_out, web>>

InitMatch ==
  /\ InitWeb
  /\ cmp_in \in [cv_skills : SeqsUpTo(SkillStrings, MaxSkills),
                 job_skills : SeqsUpTo(SkillStrings, MaxSkills),
                 ai : BOOLEAN]
  /\ cmp_out = NoCmpOut
  /\ InitRagCmp

NextMatch == call_match_skills \/ call_compare_skills_tool

SpecMatch == InitMatch /\ [][NextMatch]_vars

\* number of places of the sequence q that hold x
Count(q, x) == Cardinality({ i \in 1..Len(q) : q[i] = x })

\* C4: in the result of match_skills and of compare_skills_tool every CV
\* skill that is distinct after normalisation (one spelling per normalised
\* form) is reported exactly once, in exactly one of matched, cv_only and
\* interesting; it is in matched iff some job skill equals it, contains it
\* or is contained in it after normalisation; and cv_only and interesting
\* are disjoint.
C4_CvSkillInExactlyOneBucket ==
  cmp_out.fn # "none" =>
    LET cv == normalized(cmp_in.cv_skills)
        job_keys == { normalize(j) : j \in Elems(cmp_in.job_skills) }
    IN
    /\ \A i \in 1..Len(cv) :
         LET k == cv[i][1]
             v == cv[i][2]
         IN /\ Count(cmp_out.matched, v) + Count(cmp_out.cv_only, v)
                 + Count(cmp_out.interesting, v) = 1
            /\ (v \in Elems(cmp_out.matched))
                 <=> (\E jk \in job_keys : related(k, jk))
    /\ Elems(cmp_out.cv_only) \cap Elems(cmp_out.interesting) = {}

\* a comparison of two CV skills, one matched by containment, the other
\* found not interesting by the LLM
C4_Witness ==
  /\ cmp_out.fn = "compare_skills_tool"
  /\ cmp_in.cv_skills = << <<"a">>, <<"c">> >>
  /\ cmp_in.job_skills = << <<"a", "b">> >>
  /\ cmp_out.matched = << <<"a">> >>
  /\ cmp_out.cv_only = << <<"c">> >>
  /\ cmp_out.interesting = <<>>

\* C5 as stated: every job skill of the list is in job_only iff no CV skill
\* equals it, contains it or is contained in it after normalisation.
C5_Original ==
  cmp_out.fn # "none" =>
    \A j \in Elems(cmp_in.job_skills) :
      (j \in Elems(cmp_out.job_only))
        <=> ~(\E c \in Elems(cmp_in.cv_skills) :
                related(normalize(c), normalize(j)))

\* C5 amended: job skills are compared and reported per normalised form,
\* under the spelling listed last for that form.  Such a job skill is in
\* job_only iff no CV skill equals it, contains it or is contained in it
\* after normalisation; no skill in job_only is the job side of a matched
\* pair; and job_only holds nothing else.
C5_JobOnlyIffUnmatched ==
  cmp_out.fn # "none" =>
    LET job == normalized(cmp_in.job_skills)
        cv_keys == { normalize(c) : c \in Elems(cmp_in.cv_skills) }
    IN
    /\ \A i \in 1..Len(job) :
         (job[i][2] \in Elems(cmp_out.job_only))
           <=> ~(\E ck \in cv_keys : related(ck, job[i][1]))
    /\ \A i \in 1..Len(cmp_out.pairs) :
         cmp_out.pairs[i].job_skill \notin Elems(cmp_out.job_only)
    /\ Elems(cmp_out.job_only) \subseteq { job[i][2] : i \in 1..Len(job) }

\* two spellings of one job skill, reported once as missing, next to a job
\* skill that is matched
C5_Witness ==
  /\ cmp_out.fn = "match_skills"
  /\ cmp_in.job_skills = << <<"A">>, <<"a">> >>
  /\ cmp_in.cv_skills = << <<"c">> >>
  /\ cmp_out.job_only = << <<"a">> >>


\* ------------------------------------------------------------------------
\* tools.compare_skills_tool_with_rag.  Similarities, distances and the
\* threshold are in hundredths.  A vector store is modelled by what it
\* holds for a query: the distances of its chunks to the query text.
\* ------------------------------------------------------------------------

\* longest CV skills list and longest job skills list compared
MaxRagCvSkills == 1
MaxRagJobSkills == 2

\* similarity_threshold = 0.7, as compare_skills passes it
similarity_threshold == 70

\* cv_only[:20]
InterestingLimit == 20

CvSkillNames == <<"cv skill 1", "cv skill 2", "cv skill 3">>
JobSkillNames == <<"job skill 1", "job skill 2", "job skill 3", "job skill 4">>

\* cosine similarities of two skill embeddings: below, at, above the threshold
Similarities == {10, 70, 90}

\* distances Chroma reports between a chunk and a query
Distances == {20, 50, 80}

\* RAGSystem.retrieve_with_scores: the similarity of a Chroma score, which
\* is a distance (0 = identical)
\* the conversion without its branches: similarity = 1 - distance
similarity_of_unbranched(score) == 100 - score

similarity_of(score) ==
  LET similarity ==
        IF score < 0 THEN 0
        ELSE IF score <= 100 THEN 100 - score
        ELSE IF score <= 200 THEN 100 - (score \div 2)
        ELSE (100 * 100) \div (100 + score)
      floor0 == IF similarity < 0 THEN 0 ELSE similarity
  IN IF floor0 > 100 THEN 100 ELSE floor0

\* vectorstore.similarity_search_with_score(query, k=1): the score of the
\* nearest chunk, i.e. the smallest distance; no result for an empty store
similarity_search_with_score(vectorstore, query) ==
  IF vectorstore[query] = {} THEN <<>>
  ELSE << MinOf(vectorstore[query]) >>

\* the double loop over the similarity matrix, row by row
RECURSIVE matched_details_upto(_, _, _, _)
matched_details_upto(cv_skills, job_skills, similarity_matrix, n) ==
  IF n = 0 THEN <<>>
  ELSE LET rest == matched_details_upto(cv_skills, job_skills,
                                        similarity_matrix, n - 1)
           i == ((n - 1) \div Len(job_skills)) + 1
           j == ((n - 1) % Len(job_skills)) + 1
       IN IF similarity_matrix[i][j] >= similarity_threshold
          THEN Append(rest, [cv_skill |-> cv_skills[i],
                             job_skill |-> job_skills[j],
                             similarity |-> similarity_matrix[i][j],
                             i |-> i, j |-> j])
          ELSE rest

Firsts(q, n) == SubSeq(q, 1, IF Len(q) < n THEN Len(q) ELSE n)

\* compare_skills_tool_with_rag; embed_ok says whether the embedding calls
\* succeed (a failure is caught and gives the error result)
compare_skills_tool_with_rag(cv_skills, job_skills, similarity_matrix, cv_vectorstore, jd_vectorstore, embed_ok) ==
  IF cv_skills = <<>> \/ job_skills = <<>>
  THEN [matched |-> <<>>, matched_details |-> <<>>, cv_only |-> cv_skills,
        job_only |-> job_skills, interesting |-> <<>>, status |-> "error"]
  ELSE IF ~embed_ok
  THEN [matched |-> <<>>, matched_details |-> <<>>, cv_only |-> <<>>,
        job_only |-> <<>>, interesting |-> <<>>, status |-> "error"]
  ELSE
  LET matched == matched_details_upto(cv_skills, job_skills,
                   similarity_matrix, Len(cv_skills) * Len(job_skills))
      matched_cv_indices == { matched[k].i : k \in 1..Len(matched) }
      matched_jd_indices == { matched[k].j : k \in 1..Len(matched) }
      cv_only == Drop(cv_skills, { cv_skills[i] : i \in matched_cv_indices })
      unmatched_jd ==
        Drop(job_skills, { job_skills[j] : j \in matched_jd_indices })
      job_only ==
        IF cv_vectorstore # <<>>
        THEN SelectSeq(unmatched_jd,
               LAMBDA jd_skill :
                 LET results == similarity_search_with_score(
                                  cv_vectorstore[1], jd_skill)
                 IN results = <<>> \/ results[1] < similarity_threshold)
        ELSE unmatched_jd
      interesting ==
        IF cv_only # <<>> /\ jd_vectorstore # <<>>
        THEN SelectSeq(Firsts(cv_only, InterestingLimit),
               LAMBDA cv_skill :
                 LET results == similarity_search_with_score(
                                  jd_vectorstore[1], cv_skill)
                 IN results # <<>> /\ results[1] >= similarity_threshold)
        ELSE <<>>
  IN [matched |-> [k \in 1..Len(matched) |-> matched[k].cv_skill],
      matched_details |-> matched,
      cv_only |-> Drop(cv_only, Elems(interesting)),
      job_only |-> job_only,
      interesting |-> interesting,
      status |-> "success"]

\* the compare_skills node calls compare_skills_tool_with_rag
call_compare_skills_tool_with_rag ==
  /\ rag_out.status = "none"
  /\ \E embed_ok \in BOOLEAN :
       rag_out' = compare_skills_tool_with_rag(rag_in.cv_skills,
                    rag_in.job_skills, rag_in.similarity_matrix,
                    rag_in.cv_vectorstore, rag_in.jd_vectorstore, embed_ok)
  /\ UNCHANGED <<rag_in, cmp_in, cmp_out, web>>

\* a vector store over the given queries
Stores(queries) == [queries -> SUBSET Distances]

InitRag ==
  /\ InitWeb
  /\ InitCmp
  /\ \E nc \in 0..MaxRagCvSkills, nj \in 0..MaxRagJobSkills :
       LET cvs == SubSeq(CvSkillNames, 1, nc)
           jobs == SubSeq(JobSkillNames, 1, nj)
       IN rag_in \in
            [cv_skills : {cvs}, job_skills : {jobs},
             similarity_matrix : [1..nc -> [1..nj -> Similarities]],
             cv_vectorstore : {<<>>} \cup { <<v>> : v \in Stores(Elems(jobs)) },
             jd_vectorstore : {<<>>}
               \cup { <<v>> : v \in [Elems(cvs) -> { {}, {20}, {80} }] }]
  /\ rag_out = NoRagOut

NextRag == call_compare_skills_tool_with_rag

SpecRag == InitRag /\ [][NextRag]_vars

\* C6 as stated: with a CV vector store present, a job skill that is the
\* job side of no matched pair is in job_only exactly when the CV vector
\* store holds no chunk whose similarity to the skill reaches the threshold.
C6_Original ==
  (rag_out.status = "success" /\ rag_in.cv_vectorstore # <<>>) =>
    \A j \in 1..Len(rag_in.job_skills) :
      LET jd_skill == rag_in.job_skills[j]
          in_pair == \E k \in 1..Len(rag_out.matched_details) :
                       rag_out.matched_details[k].j = j
          chunk_found == \E d \in rag_in.cv_vectorstore[1][jd_skill] :
                           similarity_of(d) >= similarity_threshold
      IN ~in_pair =>
           ((jd_skill \in Elems(rag_out.job_only)) <=> ~chunk_found)


\* ------------------------------------------------------------------------
\* Properties of the endpoints
\* ------------------------------------------------------------------------

\* C7 as stated: every failure of an endpoint that calls the LLM is answered
\* with an HTTP error whose message is the category text parse_openai_error
\* chooses for the exception, the first matching rule of the order 401, 429,
\* 500, billing, model winning and the generic text standing for no match.
C7_Original ==
  \A r \in Reqs :
    (pc[r] = "done" /\ resp[r].status = 500) =>
      /\ \E m \in Msgs \cup {ValueErrorMsg} :
           resp[r].error = user_message(parse_openai_error(m))
      /\ resp[r].result_error # NoneStr =>
           resp[r].error = user_message(parse_openai_error(resp[r].result_error))

\* C8 as stated: once an external LLM or embedding call of a request has
\* failed, the request makes no further external call.
C8_Original == \A r \in Reqs : ~calls[r].after_failure

\* C8: no step of a request is repeated: no node of the pipeline runs twice,
\* agent_executor.invoke is called at most once and chain.invoke at most
\* once, and the chain is invoked after the AgentExecutor only when the run
\* of the AgentExecutor failed.
C8_NoStepRepeated ==
  \A r \in Reqs :
    /\ \A i, j \in 1..Len(st[r].trace) :
         st[r].trace[i] = st[r].trace[j] => i = j
    /\ asst[r].agent_executor <= 1
    /\ asst[r].chain <= 1
    /\ (asst[r].agent_executor = 1 /\ asst[r].chain = 1) => calls[r].failed

\* an assistant request whose AgentExecutor run failed and whose fallback
\* call then produced the answer
C8_Witness ==
  \E r \in Reqs :
    /\ pc[r] = "done"
    /\ req[r].kind = "assistant"
    /\ asst[r].agent_executor = 1
    /\ asst[r].chain = 1
    /\ calls[r].after_failure
    /\ resp[r].status = 200

\* the assistant request of slot r has passed validation and the memory setup
PastMemorySetup(r) ==
  pc[r] \in {"asst_rag", "asst_rag_init", "asst_call", "asst_exec",
             "asst_fallback", "asst_return"}

C10_Original ==
  \A r \in Reqs :
    (pc[r] = "done" /\ req[r].kind = "optimize" /\ resp[r].agent_logs > 0) =>
      LET entry == rag_systems[req[r].session_id] IN
        /\ entry.present
        /\ entry.obj # <<>>
        /\ rag_heap[entry.obj[1]].cv_vectorstore =
             << from_documents(documents(req[r].cv_text, "cv", "cv"),
                               <<"cv", "cv">>) >>
        /\ rag_heap[entry.obj[1]].jd_vectorstore =
             << from_documents(documents(req[r].job_description, "jd", "jd"),
                               <<"jd", "jd">>) >>


\* the stores that index_cv and index_jd build from the texts of the request
\* in slot r
OwnCvStore(r) ==
  << from_documents(documents(st[r].cv_text, "cv", "cv"), <<"cv", "cv">>) >>

OwnJdStore(r) ==
  << from_documents(documents(st[r].job_description, "jd", "jd"),
                    <<"jd", "jd">>) >>

\* C11 as stated: the optimizer is stateless across requests; in particular,
\* in an answered /api/optimize-cv request the RAG comparison was made only on
\* stores indexed by that request, and generate_optimized_cv retrieved only
\* from stores indexed by that request.
C11_Original ==
  \A r \in Reqs :
    (pc[r] = "done" /\ req[r].kind = "optimize" /\ resp[r].agent_logs > 0) =>
      /\ (st[r].skills_comparison # <<>>
            /\ st[r].skills_comparison[1].method = "rag") =>
           /\ st[r].skills_comparison[1].cv_store = OwnCvStore(r)
           /\ st[r].skills_comparison[1].jd_store = OwnJdStore(r)
      /\ st[r].sources # <<>> =>
           /\ st[r].sources[1].cv_sources \in {<<>>, OwnCvStore(r)}
           /\ st[r].sources[1].jd_sources \in {<<>>, OwnJdStore(r)}


\* ------------------------------------------------------------------------
\* Two requests in flight at once
\* ------------------------------------------------------------------------

\* two /api/assistant requests of session s1, one per slot, interleaved in
\* every way at the steps of the handler
NextAsstPair ==
  /\ \E r \in Reqs :
       \/ api_assistant(r, "s1")
       \/ Assistant(r)
  /\ UNCHANGED pure

SpecAsstPair == Init /\ [][NextAsstPair]_vars

\* the assistant request of slot r has been answered with 200
Answered(r) ==
  pc[r] = "done" /\ req[r].kind = "assistant" /\ resp[r].status = 200

\* C12 as stated: when two /api/assistant requests of the same previously
\* unseen session have both completed, whatever their interleaving, both
\* appended to the one memory object assistant_memory holds for the session,
\* and the user and assistant messages of both are in it.
C12_Original ==
  (\A r \in Reqs : Answered(r) /\ req[r].session_id = "s1") =>
    /\ assistant_memory["s1"].present
    /\ \A r \in Reqs : asst[r].memory = assistant_memory["s1"].obj
    /\ Count(History("s1"), <<"human", "user_request">>) = Cardinality(Reqs)
    /\ Count(History("s1"), <<"ai", "explanation">>) >= Cardinality(Reqs)


\* the step of slot r is one in which no node raises and no external call
\* fails
Healthy(r) == st'[r].error = NoneStr /\ ~calls'[r].failed

\* two /api/optimize-cv requests of session s1, one per slot, interleaved in
\* every way at the nodes of the graph, with the external services up
NextOptPair ==
  /\ \E r \in Reqs :
       \/ api_optimize_cv(r, "s1")
       \/ Pipeline(r) /\ Healthy(r)
  /\ UNCHANGED pure

SpecOptPair == Init /\ [][NextOptPair]_vars

\* C13 as stated: under any interleaving of two /api/optimize-cv requests on
\* the same session, the stores that a request's compare_skills step reads
\* and the stores its generate_optimized_cv step retrieves from were built
\* from that request's own CV text and job description, never from the
\* other request's.
C13_Original ==
  \A r \in Reqs :
    req[r].kind = "optimize" =>
      /\ (st[r].skills_comparison # <<>>
            /\ st[r].skills_comparison[1].method = "rag") =>
           /\ st[r].skills_comparison[1].cv_store = OwnCvStore(r)
           /\ st[r].skills_comparison[1].jd_store = OwnJdStore(r)
      /\ st[r].sources # <<>> =>
           /\ st[r].sources[1].cv_sources = OwnCvStore(r)
           /\ st[r].sources[1].jd_sources = OwnJdStore(r)


\* ------------------------------------------------------------------------
\* Input validation
\* ------------------------------------------------------------------------

\* the body q lacks a field its endpoint requires
Rejected(q) ==
  \/ q.api_key = ""
  \/ q.kind = "optimize" /\ (q.cv_text = "" \/ q.job_description = "")
  \/ q.kind = "assistant" /\ (q.request = "" \/ q.optimized_cv = "")

\* the two dictionaries and the objects they hold
Persistent == <<rag_systems, rag_heap, assistant_memory, mem_heap>>

extract_skills_parameters == {"text", "api_key", "text_type", "model"}

match_skills_parameters ==
  {"cv_skills", "job_skills", "cv_text", "job_text", "api_key", "model"}

\* a call with keyword arguments binds when the function has a parameter of
\* every keyword; otherwise Python raises TypeError before the body runs
Binds(keywords, parameters) == keywords \subseteq parameters

\* str(e) of that TypeError
TypeErrorMsg == "got an unexpected keyword argument 'temperature'"

\* api_extract_skills: the text is kept in the field of its text_type.
\* resp.result_error is the text of the exception its except branch caught.
api_extract_skills(r) ==
  /\ pc[r] = "idle"
  /\ \E k \in {"", "sk"}, text \in CvTexts \cup {""}, text_type \in {"cv", "job"},
        numbers_ok \in BOOLEAN, llm_ok \in BOOLEAN :
       /\ req' = [req EXCEPT ![r] =
                    [IdleReq EXCEPT !.kind = "extract-skills", !.api_key = k,
                       !.cv_text = IF text_type = "cv" THEN text ELSE "",
                       !.job_description = IF text_type = "job" THEN text
                                           ELSE ""]]
       /\ IF ~numbers_ok
          THEN /\ Answer(r, [NoResp EXCEPT !.status = 500,
                    !.result_error = ValueErrorMsg,
                    !.error = user_message(parse_openai_error(ValueErrorMsg))])
               /\ calls' = [calls EXCEPT ![r] = NoCalls]
          ELSE IF k = ""
          THEN /\ Answer(r, [NoResp EXCEPT !.status = 400,
                               !.error = text_message("API key is required")])
               /\ calls' = [calls EXCEPT ![r] = NoCalls]
          ELSE IF text = ""
          THEN /\ Answer(r, [NoResp EXCEPT !.status = 400,
                               !.error = text_message("Text is required")])
               /\ calls' = [calls EXCEPT ![r] = NoCalls]
          ELSE IF ~Binds({"text", "text_type", "api_key", "model", "temperature"},
                         extract_skills_parameters)
          THEN /\ Answer(r, [NoResp EXCEPT !.status = 500,
                    !.result_error = TypeErrorMsg,
                    !.error = user_message(parse_openai_error(TypeErrorMsg))])
               /\ calls' = [calls EXCEPT ![r] = NoCalls]
          ELSE \* extract_skills: one LLM call; it catches a failure and
               \* returns a result without a status, with no skills
               /\ calls' = [calls EXCEPT ![r] = Called(NoCalls, llm_ok)]
               /\ Answer(r, [NoResp EXCEPT !.status = 200,
                               !.result = <<"skills", "count">>])
  /\ pc' = [pc EXCEPT ![r] = "done"]
  /\ UNCHANGED <<Persistent, st, asst, pure>>

\* api_match_skills: cmp_in holds the lists of the body, cmp_out what
\* match_skills returned
api_match_skills(r) ==
  /\ pc[r] = "idle"
  /\ \E k \in {"", "sk"}, numbers_ok \in BOOLEAN, texts \in BOOLEAN,
        cv_skills \in SeqsUpTo(SkillStrings, 1),
        job_skills \in SeqsUpTo(SkillStrings, 1) :
       /\ req' = [req EXCEPT ![r] =
                    [IdleReq EXCEPT !.kind = "match-skills", !.api_key = k,
                       !.cv_text = IF texts THEN "cvA" ELSE "",
                       !.job_description = IF texts THEN "jdX" ELSE ""]]
       /\ cmp_in' = [cv_skills |-> cv_skills, job_skills |-> job_skills,
                     ai |-> k # "" /\ texts]
       /\ IF ~numbers_ok
          THEN /\ Answer(r, [NoResp EXCEPT !.status = 500,
                    !.result_error = ValueErrorMsg,
                    !.error = user_message(parse_openai_error(ValueErrorMsg))])
               /\ calls' = [calls EXCEPT ![r] = NoCalls]
               /\ cmp_out' = NoCmpOut
          ELSE IF k = ""
          THEN /\ Answer(r, [NoResp EXCEPT !.status = 400,
                               !.error = text_message("API key is required")])
               /\ calls' = [calls EXCEPT ![r] = NoCalls]
               /\ cmp_out' = NoCmpOut
          ELSE IF cv_skills = <<>> \/ job_skills = <<>>
          THEN /\ Answer(r, [NoResp EXCEPT !.status = 400,
                    !.error = text_message("Both CV skills and job skills are required")])
               /\ calls' = [calls EXCEPT ![r] = NoCalls]
               /\ cmp_out' = NoCmpOut
          ELSE IF ~Binds({"cv_skills", "job_skills", "api_key", "cv_text",
                          "job_text", "model", "temperature"},
                         match_skills_parameters)
          THEN /\ Answer(r, [NoResp EXCEPT !.status = 500,
                    !.result_error = TypeErrorMsg,
                    !.error = user_message(parse_openai_error(TypeErrorMsg))])
               /\ calls' = [calls EXCEPT ![r] = NoCalls]
               /\ cmp_out' = NoCmpOut
          ELSE \* match_skills catches a failure of its LLM call itself
               \E answer \in Answers :
               /\ cmp_out' = WithFn(match_skills(cv_skills, job_skills,
                                      k # "" /\ texts, answer), "match_skills")
               /\ calls' = [calls EXCEPT ![r] =
                              IF cmp_out'.cv_only # <<>> \/ cmp_out'.interesting # <<>>
                              THEN Called(NoCalls, answer.kind # "failed")
                              ELSE NoCalls]
               /\ Answer(r, [NoResp EXCEPT !.status = 200,
                               !.result = <<"matched", "cv_only", "job_only",
                                            "interesting", "stats">>])
  /\ pc' = [pc EXCEPT ![r] = "done"]
  /\ UNCHANGED <<Persistent, st, asst, rag_in, rag_out>>

NextSkills ==
  \E r \in Reqs :
    \/ Sequential(r) /\ api_extract_skills(r)
    \/ Sequential(r) /\ api_match_skills(r)
    \/ Finish(r) /\ UNCHANGED pure

SpecSkills == Init /\ [][NextSkills]_vars

\* the body of the skills request in slot r passed the validation of its
\* endpoint, and its temperature was a number
SkillsValidated(r) ==
  /\ req[r].api_key # ""
  /\ resp[r].result_error # ValueErrorMsg
  /\ req[r].kind = "extract-skills" =>
       (req[r].cv_text # "" \/ req[r].job_description # "")
  /\ req[r].kind = "match-skills" =>
       (cmp_in.cv_skills # <<>> /\ cmp_in.job_skills # <<>>)

\* C15 as stated: each of the two skills endpoints, once validation passes
\* and the LLM does not fail, answers 200 with the result of its function:
\* the skills list and count of extract_skills, the buckets and stats of
\* match_skills.
C15_Original ==
  \A r \in Reqs :
    (pc[r] = "done" /\ req[r].kind \in {"extract-skills", "match-skills"}
       /\ SkillsValidated(r) /\ ~calls[r].failed) =>
      /\ resp[r].status = 200
      /\ req[r].kind = "extract-skills" =>
           resp[r].result = <<"skills", "count">>
      /\ req[r].kind = "match-skills" =>
           /\ resp[r].result = <<"matched", "cv_only", "job_only",
                                 "interesting", "stats">>
           /\ cmp_out.fn = "match_skills"


\* the optimize request in slot r is past the RAG setup of its endpoint
PastRagSetup(r) ==
  req[r].kind = "optimize" /\ pc[r] \in Nodes \cup {"opt_return"}

\* C16 as stated: whenever /api/optimize-cv is past its RAG setup for a
\* session, the entry of the session in rag_systems is a usable RAGSystem,
\* the one the pipeline runs with; no operation stores anything but a
\* RAGSystem under a session key.
C16_Original ==
  /\ \A s \in Sessions :
       rag_systems[s].present => rag_systems[s].obj # <<>>
  /\ \A r \in Reqs :
       PastRagSetup(r) =>
         /\ rag_systems[req[r].session_id].present
         /\ st[r].rag_system # <<>>
         /\ st[r].rag_system = rag_systems[req[r].session_id].obj


\* the stores of the RAG system kept for session s: the sequences of its two
\* fields, empty where the field is None
StoresOf(s) ==
  IF rag_systems[s].present /\ rag_systems[s].obj # <<>>
  THEN rag_heap[rag_systems[s].obj[1]]
  ELSE NewRAGSystem

\* store, a field of a RAG system, is None or was written with session_id
TaggedWith(store, session_id) ==
  store # <<>> =>
    /\ store[1].collection_name[2] = session_id
    /\ \A d \in store[1].docs : d.session_id = session_id

\* C17 as stated: the session_id given to index_cv and index_jd, which names
\* the collection and tags every chunk, is the identifier of the HTTP
\* session of the request, so two sessions never write their chunks to a
\* collection of the same name.
C17_Original ==
  /\ \A s \in Sessions :
       /\ TaggedWith(StoresOf(s).cv_vectorstore, s)
       /\ TaggedWith(StoresOf(s).jd_vectorstore, s)
  /\ \A s \in Sessions : \A t \in Sessions \ {s} :
       \A f \in {"cv_vectorstore", "jd_vectorstore"} :
         (StoresOf(s)[f] # <<>> /\ StoresOf(t)[f] # <<>>) =>
           StoresOf(s)[f][1].collection_name # StoresOf(t)[f][1].collection_name


\* ------------------------------------------------------------------------
\* RAGSystem.retrieve_with_scores.  Scores and similarities are in
\* hundredths.
\* ------------------------------------------------------------------------

\* the longest list similarity_search_with_score returns here
MaxResults == 2

\* raw scores of the four ranges of the conversion and of their borders
RawScores == {-50, -1, 0, 50, 100, 101, 150, 200, 201, 500, 100000}

\* self is the RAGSystem; results is what the store's
\* similarity_search_with_score returns when it does not raise
retrieve_with_scores(self, source, results, search_ok) ==
  LET vectorstore == IF source = "cv" THEN self.cv_vectorstore
                     ELSE self.jd_vectorstore
  IN IF vectorstore = <<>> THEN <<>>
     ELSE IF ~search_ok THEN <<>>
     ELSE [i \in 1..Len(results) |->
             <<results[i][1], similarity_of(results[i][2])>>]

\* the arguments of one call: rag_in.results pairs chunk i with its score
InitScores ==
  /\ InitWeb
  /\ InitCmp
  /\ \E n \in 0..MaxResults :
       rag_in \in
         [source : {"cv", "jd"},
          cv_vectorstore : {<<>>, <<"cv store">>},
          jd_vectorstore : {<<>>, <<"jd store">>},
          results : { [i \in 1..n |-> <<i, f[i]>>] : f \in [1..n -> RawScores] },
          search_ok : BOOLEAN]
  /\ rag_out = [status |-> "none", result |-> <<>>]

call_retrieve_with_scores ==
  /\ rag_out.status = "none"
  /\ rag_out' = [status |-> "returned",
                 result |-> retrieve_with_scores(rag_in, rag_in.source,
                              rag_in.results, rag_in.search_ok)]
  /\ UNCHANGED <<rag_in, cmp_in, cmp_out, web>>

NextScores == call_retrieve_with_scores

SpecScores == InitScores /\ [][NextScores]_vars

\* the store retrieve_with_scores selects for its source
Selected == IF rag_in.source = "cv" THEN rag_in.cv_vectorstore
            ELSE rag_in.jd_vectorstore

\* C18: retrieve_with_scores returns, for every raw score the store can
\* report, a similarity between 0 and 1 inclusive, paired with the chunk of
\* the score, and it returns the empty list when the selected store is
\* missing or the search raises.
C18_SimilarityInUnitRange ==
  rag_out.status = "returned" =>
    /\ \A i \in 1..Len(rag_out.result) :
         /\ rag_out.result[i][1] = rag_in.results[i][1]
         /\ rag_out.result[i][2] \in 0..100
    /\ (Selected = <<>> \/ ~rag_in.search_ok) => rag_out.result = <<>>
    /\ (Selected # <<>> /\ rag_in.search_ok) =>
         Len(rag_out.result) = Len(rag_in.results)

\* a call returned the similarities of a score above 2 and of a negative one
C18_Witness ==
  /\ rag_out.status = "returned"
  /\ Len(rag_out.result) = MaxResults
  /\ rag_in.results[1][2] > 200
  /\ rag_in.results[2][2] < 0
  /\ rag_out.result[1][2] > 0


\* process_assistant_request_with_agent has returned its result to the
\* assistant request in slot r
Returned(r) ==
  /\ req[r].kind = "assistant"
  /\ \/ pc[r] = "asst_return"
     \/ pc[r] = "done" /\ (resp[r].status = 200 \/ resp[r].result_error # NoneStr)

\* C19: process_assistant_request_with_agent returns action = "update_cv"
\* exactly when the updated_cv it returns differs from the optimized_cv it
\* was given, and None otherwise; a result with an error has the given
\* optimized_cv as updated_cv and None as action.
C19_ActionIffCvChanged ==
  \A r \in Reqs :
    Returned(r) =>
      /\ resp[r].action \in {"update_cv", NoneStr}
      /\ resp[r].action = "update_cv" <=>
           resp[r].updated_cv # req[r].optimized_cv
      /\ resp[r].result_error # NoneStr =>
           /\ resp[r].updated_cv = req[r].optimized_cv
           /\ resp[r].action = NoneStr

\* a run returned the CV it was given, without an error
C19_Witness ==
  \E r \in Reqs :
    /\ Returned(r)
    /\ resp[r].result_error = NoneStr
    /\ resp[r].updated_cv = req[r].optimized_cv
    /\ resp[r].action = NoneStr


\* the message list of the memory the assistant request in slot r runs with
OwnHistory(r) == mem_heap[asst[r].memory[1]]

\* C20 as stated: an assistant request that returns without error appends to
\* the history of its session exactly one user message, the user's request,
\* followed by exactly one assistant message, the explanation; a request
\* that returns an error leaves the message list unchanged, as does every
\* step of a run before its return.
C20_Original ==
  [][ \A r \in Reqs :
        (req[r].kind = "assistant" /\ asst[r].memory # <<>>
           /\ pc[r] \in {"asst_call", "asst_exec", "asst_fallback"}) =>
          IF pc'[r] = "asst_return" /\ resp'[r].result_error = NoneStr
          THEN OwnHistory(r)' =
                 OwnHistory(r) \o << <<"human", "user_request">>,
                                     <<"ai", "explanation">> >>
          ELSE OwnHistory(r)' = OwnHistory(r) ]_vars


\* ------------------------------------------------------------------------
\* The current CV the tools of one assistant request share
\* ------------------------------------------------------------------------

\* the tools of the assistant request in slot r have been built
ToolsBuilt(r) ==
  /\ req[r].kind = "assistant"
  /\ pc[r] \in {"asst_exec", "asst_fallback", "asst_return", "done"}
  /\ asst[r].current_cv # NoneStr

\* the CV the latest successful update among steps left, given when none
LatestCv(given, steps) ==
  LET updates == { i \in 1..Len(steps) :
                     /\ steps[i].tool = "update_cv_section"
                     /\ steps[i].status = "success" }
  IN IF updates = {} THEN given
     ELSE steps[CHOOSE i \in updates : \A j \in updates : j <= i].updated_cv

\* the current CV of slot r starts as the given CV and is the one the latest
\* successful update left, and every tool call was given the CV the latest
\* successful update before it had left
ToolsShareCurrentCv(r) ==
  /\ asst[r].current_cv = LatestCv(req[r].optimized_cv, asst[r].steps)
  /\ \A i \in 1..Len(asst[r].steps) :
       asst[r].steps[i].cv_text =
         LatestCv(req[r].optimized_cv, SubSeq(asst[r].steps, 1, i - 1))

\* process_assistant_request_with_agent has returned to slot r
RunEnded(r) == pc[r] \in {"asst_return", "done"}

\* C21 as stated: within one assistant request the tools share one current
\* CV, which starts as the given optimized_cv, is replaced only by a
\* successful update_cv_section, and is what every later tool call operates
\* on; a current CV that differs from the given one at the end is the
\* updated_cv returned.
C21_Original ==
  \A r \in Reqs :
    ToolsBuilt(r) =>
      /\ ToolsShareCurrentCv(r)
      /\ (RunEnded(r) /\ asst[r].current_cv # req[r].optimized_cv) =>
           resp[r].updated_cv = asst[r].current_cv

\* C21: as C21_Original, but a current CV that differs from the given one
\* is the updated_cv returned only when the request returns without error;
\* a request that returns an error returns the given CV.
C21_SharedCurrentCv ==
  \A r \in Reqs :
    ToolsBuilt(r) =>
      /\ ToolsShareCurrentCv(r)
      /\ (RunEnded(r) /\ asst[r].current_cv # req[r].optimized_cv) =>
           IF resp[r].result_error = NoneStr
           THEN resp[r].updated_cv = asst[r].current_cv
           ELSE resp[r].updated_cv = req[r].optimized_cv

\* the agent updated the CV, called a tool on the updated CV, its run then
\* failed, and the fallback answered with the updated CV
C21_Witness ==
  \E r \in Reqs :
    /\ ToolsBuilt(r)
    /\ pc[r] = "done"
    /\ resp[r].status = 200
    /\ asst[r].agent_executor = 1
    /\ asst[r].chain = 1
    /\ Len(asst[r].steps) = 2
    /\ asst[r].steps[1].tool = "update_cv_section"
    /\ asst[r].steps[1].status = "success"
    /\ asst[r].steps[2].cv_text = asst[r].steps[1].updated_cv
    /\ asst[r].steps[2].cv_text # req[r].optimized_cv
    /\ resp[r].updated_cv = asst[r].current_cv
    /\ resp[r].updated_cv # req[r].optimized_cv


\* ------------------------------------------------------------------------
\* tools.update_cv_section_tool.  A text is a tuple of characters, a line
\* break is the character "\n".
\* ------------------------------------------------------------------------

\* the upper-case form of one character
UpperOf(c) ==
  IF \E i \in 1..Len(lowercase) : lowercase[i] = c
  THEN uppercase[CHOOSE i \in 1..Len(lowercase) : lowercase[i] = c]
  ELSE c

\* str.upper()
upper(s) == [i \in 1..Len(s) |-> UpperOf(s[i])]

IsLower(c) == \E i \in 1..Len(lowercase) : lowercase[i] = c

IsUpper(c) == \E i \in 1..Len(uppercase) : uppercase[i] = c

\* str.isupper(): some cased character and no lower-case one
isupper(s) ==
  /\ \E i \in 1..Len(s) : IsUpper(s[i])
  /\ \A i \in 1..Len(s) : ~IsLower(s[i])

\* str.istitle(): some cased character, capitals only after uncased
\* characters and small letters only after cased ones
istitle(s) ==
  /\ \E i \in 1..Len(s) : IsUpper(s[i]) \/ IsLower(s[i])
  /\ \A i \in 1..Len(s) :
       LET after_cased == i > 1 /\ (IsUpper(s[i - 1]) \/ IsLower(s[i - 1]))
       IN /\ IsUpper(s[i]) => ~after_cased
          /\ IsLower(s[i]) => after_cased

\* str.split('\n'): the lines of a text, one empty line for the empty text
RECURSIVE split(_)
split(text) ==
  IF \A i \in 1..Len(text) : text[i] # "\n" THEN << text >>
  ELSE LET k == CHOOSE i \in 1..Len(text) :
                  text[i] = "\n" /\ \A j \in 1..(i - 1) : text[j] # "\n"
       IN << SubSeq(text, 1, k - 1) >> \o split(SubSeq(text, k + 1, Len(text)))

\* '\n'.join(lines)
RECURSIVE join(_)
join(lines) ==
  IF lines = <<>> THEN <<>>
  ELSE IF Len(lines) = 1 THEN lines[1]
  ELSE lines[1] \o <<"\n">> \o join(Tail(lines))

\* a header line is shorter than this
header_limit == 50

\* the dict section_patterns: its items, each a key and a list of patterns
section_patterns ==
  <<
     << <<"e", "x", "p", "e", "r", "i", "e", "n", "c", "e">>,
        << <<"e", "x", "p", "e", "r", "i", "e", "n", "c", "e">>,
           <<"w", "o", "r", "k", " ", "e", "x", "p", "e", "r", "i", "e", "n", "c", "e">>,
           <<"p", "r", "o", "f", "e", "s", "s", "i", "o", "n", "a", "l", " ", "e", "x", "p", "e", "r", "i", "e", "n", "c", "e">> >> >>,
     << <<"e", "d", "u", "c", "a", "t", "i", "o", "n">>,
        << <<"e", "d", "u", "c", "a", "t", "i", "o", "n">>,
           <<"a", "c", "a", "d", "e", "m", "i", "c">>,
           <<"q", "u", "a", "l", "i", "f", "i", "c", "a", "t", "i", "o", "n", "s">> >> >>,
     << <<"s", "k", "i", "l", "l", "s">>,
        << <<"s", "k", "i", "l", "l", "s">>,
           <<"c", "o", "m", "p", "e", "t", "e", "n", "c", "i", "e", "s">>,
           <<"t", "e", "c", "h", "n", "i", "c", "a", "l", " ", "s", "k", "i", "l", "l", "s">> >> >>,
     << <<"s", "u", "m", "m", "a", "r", "y">>,
        << <<"s", "u", "m", "m", "a", "r", "y">>,
           <<"p", "r", "o", "f", "i", "l", "e">>,
           <<"o", "b", "j", "e", "c", "t", "i", "v", "e">> >> >>
  >>

\* section_patterns.get(section_name.lower(), [section_name.lower()])
patterns_of(section_name) ==
  LET key == lower(section_name)
      hits == { k \in 1..Len(section_patterns) : section_patterns[k][1] = key }
  IN IF hits = {} THEN << key >>
     ELSE section_patterns[CHOOSE k \in hits : TRUE][2]

\* any(pattern in line_lower for pattern in patterns)
any_pattern_in(patterns, line_lower) ==
  \E k \in 1..Len(patterns) : IsIn(patterns[k], line_lower)

\* the loop over the lines from line i on (counted from 1)
RECURSIVE update_lines(_, _, _, _, _, _, _)
update_lines(lines, patterns, new_content, i, in_section, section_found, updated_lines) ==
  IF i > Len(lines)
  THEN [updated_lines |-> updated_lines, section_found |-> section_found]
  ELSE LET line == lines[i]
           line_lower == strip(lower(line))
       IN IF /\ ~in_section
             /\ any_pattern_in(patterns, line_lower)
             /\ Len(strip(line)) < header_limit
          THEN update_lines(lines, patterns, new_content, i + 1, TRUE, TRUE,
                            updated_lines \o << line, new_content >>)
          ELSE IF in_section
          THEN LET leaves ==
                     /\ i < Len(lines)
                     /\ LET next_line == strip(lower(lines[i + 1]))
                        IN /\ Len(next_line) < header_limit
                           /\ isupper(next_line) \/ istitle(next_line)
               IN update_lines(lines, patterns, new_content, i + 1, ~leaves,
                               section_found, updated_lines)
          ELSE update_lines(lines, patterns, new_content, i + 1, in_section,
                            section_found, Append(updated_lines, line))

update_cv_section_tool(cv_text, section_name, new_content) ==
  LET lines == split(cv_text)
      after == update_lines(lines, patterns_of(section_name), new_content,
                            1, FALSE, FALSE, <<>>)
      updated_lines ==
        IF after.section_found THEN after.updated_lines
        ELSE after.updated_lines
               \o << <<"\n">> \o upper(section_name), new_content >>
  IN [updated_cv |-> join(updated_lines), status |-> "success",
      section_found |-> after.section_found]


\* most lines of a CV handed to the tool
MaxCvLines == 3

\* a line of header_limit characters that names the skills
LongLine == <<"s", "k", "i", "l", "l", "s">> \o [i \in 1..(header_limit - 6) |-> "x"]

\* the lines a CV is made of: two headers, a body line, the long line and
\* the blank line
CvLineChoices == { <<"S", "K", "I", "L", "L", "S">>, <<"P", "y", "t", "h", "o", "n">>, <<"E", "D", "U", "C", "A", "T", "I", "O", "N">>, LongLine, <<>> }

\* the section names the agent may give: a known one, one with a space after
\* it, an unknown one, one of header_limit characters and the empty one
SectionNames ==
  { <<"S", "k", "i", "l", "l", "s">>, <<"S", "k", "i", "l", "l", "s", " ">>, <<"H", "o", "b", "b", "i", "e", "s">>, <<"E", "d", "u", "c", "a", "t", "i", "o", "n">>,
    <<"H", "o", "b", "b", "i", "e", "s">> \o [i \in 1..(header_limit - 7) |-> "y"], <<>> }

\* the new contents: one line, or two
NewContents == { <<"J", "a", "v", "a">>, <<"G", "o">> \o <<"\n">> \o <<"R", "u", "s", "t">> }

NoUpdate == [updated_cv |-> <<>>, status |-> "none", section_found |-> FALSE]

InitSection ==
  /\ InitWeb
  /\ InitRagCmp
  /\ cmp_in \in [cv_text : { join(ls) : ls \in SeqsUpTo(CvLineChoices, MaxCvLines) },
                 section_name : SectionNames,
                 new_content : NewContents]
  /\ cmp_out = [calls |-> 0, first |-> NoUpdate, second |-> NoUpdate]

\* update_cv_section_tool.invoke on the CV
call_update_cv_section_tool ==
  /\ cmp_out.calls = 0
  /\ cmp_out' = [cmp_out EXCEPT !.calls = 1,
                   !.first = update_cv_section_tool(cmp_in.cv_text,
                               cmp_in.section_name, cmp_in.new_content)]
  /\ UNCHANGED <<cmp_in, rag_in, rag_out, web>>

\* the same update again, on the CV the first one returned
call_update_cv_section_tool_again ==
  /\ cmp_out.calls = 1
  /\ cmp_out' = [cmp_out EXCEPT !.calls = 2,
                   !.second = update_cv_section_tool(cmp_out.first.updated_cv,
                                cmp_in.section_name, cmp_in.new_content)]
  /\ UNCHANGED <<cmp_in, rag_in, rag_out, web>>

NextSection ==
  \/ call_update_cv_section_tool
  \/ call_update_cv_section_tool_again

SpecSection == InitSection /\ [][NextSection]_vars

\* the places of the lines of the CV that are shorter than header_limit and
\* contain a pattern of the named section
HeaderPlaces ==
  LET lines == split(cmp_in.cv_text)
  IN { i \in 1..Len(lines) :
         /\ Len(strip(lines[i])) < header_limit
         /\ any_pattern_in(patterns_of(cmp_in.section_name),
                           strip(lower(lines[i]))) }

\* a line that reads as the header of a section: short, and in capitals or
\* in title case
IsSectionHeader(line) ==
  /\ Len(strip(line)) < header_limit
  /\ isupper(strip(line)) \/ istitle(strip(line))

\* C22 as stated: when a header line of the named section is found, the
\* result keeps every line before the header, the header followed by
\* new_content, and every line from the next section header onwards; only
\* the lines between the header and the next section header are removed.
C22_Original ==
  (cmp_out.calls >= 1 /\ HeaderPlaces # {}) =>
    LET lines == split(cmp_in.cv_text)
        h == CHOOSE i \in HeaderPlaces : \A j \in HeaderPlaces : i <= j
        later == { j \in (h + 1)..Len(lines) : IsSectionHeader(lines[j]) }
        n == IF later = {} THEN Len(lines) + 1
             ELSE CHOOSE j \in later : \A k \in later : j <= k
    IN /\ cmp_out.first.section_found
       /\ split(cmp_out.first.updated_cv) =
            SubSeq(lines, 1, h) \o split(cmp_in.new_content)
              \o SubSeq(lines, n, Len(lines))

\* C23 as stated: when no line of the CV shorter than 50 characters contains
\* a pattern of the named section, the tool keeps every line, appends a
\* blank line, the upper-cased section name and new_content, and reports
\* status success with section_found false; the same update applied to the
\* result leaves it unchanged.
C23_Original ==
  HeaderPlaces = {} =>
    /\ cmp_out.calls >= 1 =>
         /\ split(cmp_out.first.updated_cv) =
              split(cmp_in.cv_text)
                \o << <<>>, upper(cmp_in.section_name) >>
                \o split(cmp_in.new_content)
         /\ cmp_out.first.status = "success"
         /\ ~cmp_out.first.section_found
    /\ cmp_out.calls = 2 =>
         cmp_out.second.updated_cv = cmp_out.first.updated_cv


\* ------------------------------------------------------------------------
\* rag_hot.split_document_into_chunks.  A text is a tuple of characters,
\* here the letter "a" and the space.
\* ------------------------------------------------------------------------

\* longest text handed to the function, in characters
MaxTextLen == 11

\* largest chunk_size
MaxChunkSize == 3

\* text.split(): the words between the runs of spaces
RECURSIVE split_words(_)
split_words(text) ==
  IF text = <<>> THEN <<>>
  ELSE IF Head(text) = " " THEN split_words(Tail(text))
  ELSE LET ends == { k \in 1..Len(text) : text[k] = " " }
           k == IF ends = {} THEN Len(text) + 1
                ELSE CHOOSE i \in ends : \A j \in ends : i <= j
       IN << SubSeq(text, 1, k - 1) >>
            \o split_words(SubSeq(text, k + 1, Len(text)))

\* " ".join(chunk_words)
RECURSIVE join_words(_)
join_words(chunk_words) ==
  IF chunk_words = <<>> THEN <<>>
  ELSE IF Len(chunk_words) = 1 THEN chunk_words[1]
  ELSE chunk_words[1] \o <<" ">> \o join_words(Tail(chunk_words))

\* the next start that leaves no overlap
next_start_after_end(end, overlap) == end

\* start = end - overlap
next_start(end, overlap) == end - overlap

\* the while loop from its test on
RECURSIVE chunk_loop(_, _, _, _, _, _)
chunk_loop(words, chunk_size, overlap, start, chunk_id, chunks) ==
  IF ~(start < Len(words)) THEN chunks
  ELSE LET end == IF start + chunk_size < Len(words) THEN start + chunk_size
                  ELSE Len(words)
           chunk_words == SubSeq(words, start + 1, end)
           appended == Append(chunks,
                         [id |-> chunk_id, text |-> join_words(chunk_words),
                          start_word |-> start, end_word |-> end,
                          word_count |-> Len(chunk_words)])
       IN IF next_start(end, overlap) >= Len(words) - overlap
          THEN appended
          ELSE chunk_loop(words, chunk_size, overlap,
                          next_start(end, overlap), chunk_id + 1, appended)

split_document_into_chunks(text, chunk_size, overlap) ==
  LET words == split_words(text)
  IN IF Len(words) <= chunk_size
     THEN << [id |-> 0, text |-> text, start_word |-> 0,
              end_word |-> Len(words), word_count |-> Len(words)] >>
     ELSE chunk_loop(words, chunk_size, overlap, 0, 0, <<>>)

\* the arguments of one call, with 0 <= overlap < chunk_size
InitChunks ==
  /\ InitWeb
  /\ InitCmp
  /\ \E c \in 1..MaxChunkSize : \E o \in 0..(c - 1) :
       rag_in \in [text : SeqsUpTo({"a", " "}, MaxTextLen),
                   chunk_size : {c}, overlap : {o}]
  /\ rag_out = [status |-> "none", chunks |-> <<>>]

call_split_document_into_chunks ==
  /\ rag_out.status = "none"
  /\ rag_out' = [status |-> "returned",
                 chunks |-> split_document_into_chunks(rag_in.text,
                              rag_in.chunk_size, rag_in.overlap)]
  /\ UNCHANGED <<rag_in, cmp_in, cmp_out, web>>

NextChunks == call_split_document_into_chunks

SpecChunks == InitChunks /\ [][NextChunks]_vars

\* C24: for a text of more than chunk_size words the chunks have the ids
\* 0, 1, 2, ... in order, the first starts at word 0, each holds at most
\* chunk_size words, the words of the text from its start to its end, each
\* next one starts exactly overlap words before the end of the previous one,
\* and the last one ends at the last word, so every word is in some chunk; a
\* text of at most chunk_size words comes back as one chunk with the
\* original text.
C24_ChunksCoverText ==
  rag_out.status = "returned" =>
    LET words == split_words(rag_in.text)
        chunks == rag_out.chunks
    IN IF Len(words) <= rag_in.chunk_size
       THEN chunks = << [id |-> 0, text |-> rag_in.text, start_word |-> 0,
                         end_word |-> Len(words), word_count |-> Len(words)] >>
       ELSE /\ chunks # <<>>
            /\ chunks[1].start_word = 0
            /\ chunks[Len(chunks)].end_word = Len(words)
            /\ \A i \in 1..Len(chunks) :
                 /\ chunks[i].id = i - 1
                 /\ chunks[i].word_count <= rag_in.chunk_size
                 /\ chunks[i].word_count =
                      chunks[i].end_word - chunks[i].start_word
                 /\ chunks[i].text =
                      join_words(SubSeq(words, chunks[i].start_word + 1,
                                        chunks[i].end_word))
                 /\ i > 1 => chunks[i].start_word =
                               chunks[i - 1].end_word - rag_in.overlap
            /\ \A w \in 1..Len(words) :
                 \E i \in 1..Len(chunks) :
                   chunks[i].start_word < w /\ w <= chunks[i].end_word

\* a text was split into three chunks or more that overlap, the last one
\* shorter than chunk_size
C24_Witness ==
  /\ rag_out.status = "returned"
  /\ rag_in.overlap > 0
  /\ Len(rag_out.chunks) >= 3
  /\ rag_out.chunks[Len(rag_out.chunks)].word_count < rag_in.chunk_size
  /\ rag_out.chunks[Len(rag_out.chunks)].end_word =
       Len(split_words(rag_in.text))

====
